---- MODULE Spec2Model ----
(***************************************************************************)
(* A model of zewif-zcashd's wallet reconstruction: the cursor-based       *)
(* decoder (Parser, CompactSize, parse!), the PrivKey payload decoder, the *)
(* record store (ZcashdDump) and the category-by-category pass of          *)
(* ZcashdParser::parse with its claimed-record bookkeeping.                *)
(***************************************************************************)
EXTENDS Integers, Sequences, FiniteSets, TLC

VARIABLES
    \* ---- one reconstruction pass (ZcashdParser) ----
    dump,           \* the ZcashdDump: a set of records [key |-> DBKey, value |-> bytes]
    strict,         \* ZcashdParser.strict
    unparsed_keys,  \* ZcashdParser.unparsed_keys: DBKeys not yet marked parsed
    pc,             \* position of parse(): the category being reconstructed
    todo,           \* records of the running category loop not yet iterated; NoLoop outside a loop
    wallet,         \* the locals of parse() that become the ZcashdWallet
    outcome,        \* what parse_dump returned: Running, Ok((wallet, unparsed)), Err(e) or Panicked
    decoded,        \* history: DBKeys of the records whose decode completed in this pass
    diagnostics,    \* history: the tx records reported by eprintln! (lenient policy), in order
    marks,          \* history: how many times mark_key_parsed was called on each DBKey
    order,          \* history: DBKeys of the records the category loops took from the store, as taken
    run,            \* 1 for the first pass over the dump, 2 for a second pass over it
    first,          \* the first pass's dump, strict flag, outcome, last position and order
    \* ---- one PrivKey decode from a standalone buffer ----
    dbuf,           \* the buffer handed to parse!(buf = ..., PrivKey, "privkey")
    dpos,           \* Parser position (offset of the next unread byte)
    dpc,            \* position of PrivKey::parse
    dlen,           \* the local `length` of PrivKey::parse
    ddata,          \* the local `data` of PrivKey::parse
    dres            \* the result of the decode, once it has one

passVars == <<dump, strict, unparsed_keys, pc, todo, wallet, outcome, decoded,
              diagnostics, marks, order, run, first>>
decVars == <<dbuf, dpos, dpc, dlen, ddata, dres>>
vars == <<dump, strict, unparsed_keys, pc, todo, wallet, outcome, decoded,
          diagnostics, marks, order, run, first, dbuf, dpos, dpc, dlen, ddata, dres>>

(***************************************************************************)
(* Results and errors (src/error.rs).                                      *)
(***************************************************************************)
Ok(v) == [ok |-> TRUE, value |-> v]
Err(e) == [ok |-> FALSE, error |-> e]
\* a decoder's failure, with the cursor as the failed read left it
ErrAt(e, p) == [ok |-> FALSE, error |-> e, parser |-> p]

BufferNotConsumed(remaining) ==
    [kind |-> "BufferNotConsumed", remaining |-> remaining]
BufferUnderflow(offset, needed, remaining) ==
    [kind |-> "BufferUnderflow", offset |-> offset, needed |-> needed,
     remaining |-> remaining]
InvalidLength(what, expected, actual) ==
    [kind |-> "InvalidLength", what |-> what, expected |-> expected,
     actual |-> actual]
InvalidCompactSize(prefix, value) ==
    [kind |-> "InvalidCompactSize", prefix |-> prefix, value |-> value]
\* anyhow's bail!("...") / a lookup failure: an error that is only a message
Message(text) == [kind |-> "Message", message |-> text]
\* bail!("...: {}", subject)
Bail(text, subject) == [kind |-> "Message", message |-> text, subject |-> subject]

\* Error::with_context: a Context error that boxes the source
with_context(source, message) ==
    [kind |-> "Context", message |-> message, source |-> source]

\* ResultExt::context on a Result
context(res, msg) ==
    IF res.ok THEN res ELSE [res EXCEPT !.error = with_context(res.error, msg)]

\* the innermost cause of an error, following Context.source
RECURSIVE RootCause(_)
RootCause(e) == IF e.kind = "Context" THEN RootCause(e.source) ELSE e

(***************************************************************************)
(* Parser: a bounds-checked cursor [buf, pos] over a byte sequence.        *)
(***************************************************************************)
Parser_new(buf) == [buf |-> buf, pos |-> 0]
Parser_remaining(p) == Len(p.buf) - p.pos

\* a bounds check that refuses to read up to the very end of the buffer
Parser_next_short(p, n) ==
    IF n >= Parser_remaining(p)
    THEN ErrAt(BufferUnderflow(p.pos, n, Parser_remaining(p)), p)
    ELSE [ok |-> TRUE,
          value |-> SubSeq(p.buf, p.pos + 1, p.pos + n),
          parser |-> [p EXCEPT !.pos = p.pos + n]]

\* Parser::next(n): the next n bytes and the advanced parser, or BufferUnderflow
Parser_next(p, n) ==
    IF n > Parser_remaining(p)
    THEN ErrAt(BufferUnderflow(p.pos, n, Parser_remaining(p)), p)
    ELSE [ok |-> TRUE,
          value |-> SubSeq(p.buf, p.pos + 1, p.pos + n),
          parser |-> [p EXCEPT !.pos = p.pos + n]]

\* a check that lets one leftover byte through
Parser_check_finished_lax(p) ==
    IF Parser_remaining(p) > 1
    THEN Err(BufferNotConsumed(Parser_remaining(p)))
    ELSE Ok(TRUE)

\* Parser::check_finished
Parser_check_finished(p) ==
    IF Parser_remaining(p) # 0
    THEN Err(BufferNotConsumed(Parser_remaining(p)))
    ELSE Ok(TRUE)

\* `?` and and_then: go on with K on success, hand the failure on otherwise
Try(res, K(_)) == IF res.ok THEN K(res) ELSE res

\* a wrapping that keeps the description and lets go of the error it wraps
parse_dropping(res, description) ==
    IF res.ok THEN res
    ELSE [res EXCEPT !.error = Message("Parsing " \o description)]

\* the parse! macro: every form maps the error through with_context
parse(res, description) ==
    IF res.ok THEN res
    ELSE [res EXCEPT !.error = with_context(res.error, "Parsing " \o description)]

\* Parse::parse_buf: decode from a standalone buffer, which must be consumed
parse_buf(T(_), buf) ==
    Try(T(Parser_new(buf)), LAMBDA r :
    Try(Parser_check_finished(r.parser), LAMBDA f :
    Ok(r.value)))

\* An unsigned 64-bit value is kept at its width, as its 8 little-endian bytes
RECURSIVE ToLittleEndian(_, _)
ToLittleEndian(n, width) ==
    IF width = 0 THEN <<>>
    ELSE <<n % 256>> \o ToLittleEndian(n \div 256, width - 1)
U64(n) == ToLittleEndian(n, 8)
ZeroExtend(bytes) == bytes \o [i \in 1..(8 - Len(bytes)) |-> 0]

\* the number a u64 stands for; used only where the value is known to be small
RECURSIVE LittleEndian(_)
LittleEndian(bytes) ==
    IF bytes = <<>> THEN 0
    ELSE Head(bytes) + 256 * LittleEndian(Tail(bytes))

\* how many bytes follow each CompactSize prefix
CompactSizeWidth(prefix) ==
    CASE prefix = 253 -> 2 [] prefix = 254 -> 4 [] prefix = 255 -> 8

\* a check that lets a 0xFF-prefixed value through whatever its size
CompactSizeCanonical_lax(prefix, v) ==
    CASE prefix = 253 -> v[2] # 0 \/ v[1] >= 253
      [] prefix = 254 -> v[3] # 0 \/ v[4] # 0
      [] prefix = 255 -> TRUE

\* a value read after `prefix` is canonical iff no narrower form holds it:
\* 0xFD needs v >= 0xFD, 0xFE needs v >= 0x10000, 0xFF needs v >= 0x100000000
CompactSizeCanonical(prefix, v) ==
    CASE prefix = 253 -> v[2] # 0 \/ v[1] >= 253
      [] prefix = 254 -> v[3] # 0 \/ v[4] # 0
      [] prefix = 255 -> \E i \in 5..8 : v[i] # 0

\* the bytes after a CompactSize prefix of 0xFD and above
CompactSize_wide(prefix, r) ==
    IF ~CompactSizeCanonical(prefix, r.value)
    THEN ErrAt(InvalidCompactSize(prefix, ZeroExtend(r.value)), r.parser)
    ELSE [ok |-> TRUE, value |-> ZeroExtend(r.value), parser |-> r.parser]

\* CompactSize::parse: one byte below 0xFD is the value; else 2/4/8
\* little-endian bytes follow, and a non-minimal form is rejected
CompactSize_parse(p) ==
    Try(Parser_next(p, 1), LAMBDA b :
    IF b.value[1] < 253
    THEN [ok |-> TRUE, value |-> U64(b.value[1]), parser |-> b.parser]
    ELSE Try(Parser_next(b.parser, CompactSizeWidth(b.value[1])), LAMBDA r :
         CompactSize_wide(b.value[1], r)))

\* an encoder that keeps 0xFD itself in the one-byte form
CompactSize_encode_u64_late(v) ==
    IF \E i \in 5..8 : v[i] # 0 THEN <<255>> \o v
    ELSE IF v[3] # 0 \/ v[4] # 0 THEN <<254>> \o SubSeq(v, 1, 4)
    ELSE IF v[2] # 0 \/ v[1] > 253 THEN <<253>> \o SubSeq(v, 1, 2)
    ELSE <<v[1]>>

\* CompactSize encoding of a u64: the narrowest form that holds the value
CompactSize_encode_u64(v) ==
    IF \E i \in 5..8 : v[i] # 0 THEN <<255>> \o v
    ELSE IF v[3] # 0 \/ v[4] # 0 THEN <<254>> \o SubSeq(v, 1, 4)
    ELSE IF v[2] # 0 \/ v[1] >= 253 THEN <<253>> \o SubSeq(v, 1, 2)
    ELSE <<v[1]>>

\* CompactSize encoding of a length below 2^16
CompactSize_encode(n) == CompactSize_encode_u64(U64(n))

\* u256: a 32-byte blob (blob_parse!)
u256_parse(p) == parse(Parser_next(p, 32), "u256")

(***************************************************************************)
(* PrivKey (src/zcashd_wallet/transparent/priv_key.rs).                    *)
(***************************************************************************)
\* a length check that lets a length of 100 through as well
PrivKey_check_length_lax(c) ==
    IF c.value # U64(214) /\ c.value # U64(279) /\ c.value # U64(100)
    THEN ErrAt(InvalidLength("privkey", <<214, 279>>, c.value), c.parser)
    ELSE c

\* the length check of PrivKey::parse, on the decoded CompactSize
PrivKey_check_length(c) ==
    IF c.value # U64(214) /\ c.value # U64(279)
    THEN ErrAt(InvalidLength("privkey", <<214, 279>>, c.value), c.parser)
    ELSE c

\* let length = *parse!(p, CompactSize, "PrivKey size")?; and the length check
PrivKey_size(p) ==
    Try(parse(CompactSize_parse(p), "PrivKey size"), PrivKey_check_length)

\* let data = parse!(p, data = length, "PrivKey")?;
PrivKey_data(p, length) == parse(Parser_next(p, LittleEndian(length)), "PrivKey")

\* let hash = parse!(p, "PrivKey hash")?;
PrivKey_hash(p) == parse(u256_parse(p), "PrivKey hash")

\* impl Parse for PrivKey
PrivKey_parse(p) ==
    Try(PrivKey_size(p), LAMBDA s :
    Try(PrivKey_data(s.parser, s.value), LAMBDA d :
    Try(PrivKey_hash(d.parser), LAMBDA h :
    [ok |-> TRUE, value |-> [data |-> d.value, hash |-> h.value],
     parser |-> h.parser])))

(***************************************************************************)
(* Payload decoders of the other record types. Their code is outside the   *)
(* files modelled here; each is a decode with a byte length and a pass or  *)
(* fail outcome: a fixed-width blob, or a CompactSize-prefixed byte string.*)
(***************************************************************************)
\* the byte length of an opaque fixed-width payload (scaled down)
BlobLen == 2

\* a fixed-width payload type (PubKey, KeyMetadata, BlockLocator, WalletTx, ...)
Blob_parse(p) == Parser_next(p, BlobLen)
\* u32 and i64, kept at their width as little-endian bytes
u32_parse(p) == Parser_next(p, 4)
i64_parse(p) == Parser_next(p, 8)
\* TxId: a 32-byte identifier
TxId_parse(p) == Parser_next(p, 32)
\* String / Data: CompactSize length, then that many bytes
String_parse(p) ==
    Try(parse(CompactSize_parse(p), "string length"), LAMBDA c :
    parse(Parser_next(c.parser, LittleEndian(c.value)), "string"))
\* string_parse!: a newtype over String (Address)
Address_parse(p) == parse(String_parse(p), "string")
\* UnifiedAccountMetadata: the account part, then the ufvk fingerprint
UnifiedAccountMetadata_parse(p) ==
    Try(Blob_parse(p), LAMBDA a :
    Try(Blob_parse(a.parser), LAMBDA f :
    [ok |-> TRUE, value |-> [account |-> a.value, ufvk_fingerprint |-> f.value],
     parser |-> f.parser]))

\* the hash a key pair's secret material must carry (an opaque capability:
\* here a 32-byte digest of the public key and the secret bytes)
RECURSIVE SumBytes(_)
SumBytes(bytes) ==
    IF bytes = << >> THEN 0
    ELSE IF Len(bytes) = 1 THEN bytes[1]
    ELSE LET half == Len(bytes) \div 2 IN
         SumBytes(SubSeq(bytes, 1, half)) + SumBytes(SubSeq(bytes, half + 1, Len(bytes)))
hash256(bytes) == [i \in 1..32 |-> SumBytes(bytes) % 256]

\* KeyPair::new: InvalidKeypair unless the private key's hash matches
KeyPair_new(pubkey, privkey, metadata) ==
    IF hash256(pubkey \o privkey.data) # privkey.hash
    THEN Err([kind |-> "InvalidKeypair"])
    ELSE Ok([pubkey |-> pubkey, privkey |-> privkey, metadata |-> metadata])

\* SaplingKey::new: fails unless the spending key derives the viewing key
\* (an opaque capability: here the key material is its own viewing key)
SaplingKey_new(ivk, spending_key, metadata) ==
    IF spending_key # ivk
    THEN Err([kind |-> "InvalidKeypair"])
    ELSE Ok([ivk |-> ivk, key |-> spending_key, metadata |-> metadata])

(***************************************************************************)
(* ZcashdDump: the record store, a set of records with distinct keys.      *)
(***************************************************************************)
DBKey(keyname, data) == [keyname |-> keyname, data |-> data]
Record(keyname, data, value) == [key |-> DBKey(keyname, data), value |-> value]

\* DBKey of a keyname alone: the key of a scalar record
key_for_keyname(keyname) == DBKey(keyname, <<>>)

has_keys_for_keyname(d, keyname) == \E r \in d : r.key.keyname = keyname
has_value_for_key(d, key) == \E r \in d : r.key = key
has_value_for_keyname(d, keyname) == has_value_for_key(d, key_for_keyname(keyname))

value_for_key(d, key) ==
    IF has_value_for_key(d, key)
    THEN Ok((CHOOSE r \in d : r.key = key).value)
    ELSE Err(Message("No record found for key"))
dump_value_for_keyname(d, keyname) == value_for_key(d, key_for_keyname(keyname))

\* all records of a category; fails when the store has none of that keyname
records_for_keyname(d, keyname) ==
    IF has_keys_for_keyname(d, keyname)
    THEN Ok({r \in d : r.key.keyname = keyname})
    ELSE Err(Message("No records found for keyname: " \o keyname))

\* the one record of a category; fails on zero or more than one
record_for_keyname(d, keyname) ==
    Try(records_for_keyname(d, keyname), LAMBDA rs :
    IF Cardinality(rs.value) # 1
    THEN Err([kind |-> "UnexpectedRecordCount", identifier |-> keyname,
              count |-> Cardinality(rs.value)])
    ELSE Ok(CHOOSE r \in rs.value : TRUE))

(***************************************************************************)
(* The dumps a pass is run on: a well-formed base dump with a record of    *)
(* every category, changed in at most MaxChanges places (a record left     *)
(* out, or a group of records put in).                                     *)
(***************************************************************************)
MaxChanges == 1

Bytes(n, b) == [i \in 1..n |-> b]
Blob(tag) == Bytes(BlobLen, tag)
Str(n, b) == CompactSize_encode(n) \o Bytes(n, b)
I64(n) == ToLittleEndian(n, 8)
U32(n) == ToLittleEndian(n, 4)
Txid(tag) == Bytes(32, tag)
\* the secret bytes of the test keys
SecretBytes(length) == [i \in 1..length |-> i % 256]
\* a PrivKey payload of `length` secret bytes whose hash matches `pubkey`
PrivKeyBytes(pubkey, length) ==
    CompactSize_encode(length) \o SecretBytes(length)
    \o hash256(pubkey \o SecretBytes(length))

BaseDump ==
    { Record("bestblock", <<>>, Blob(1)),
      Record("defaultkey", <<>>, Blob(2)),
      Record("key", Blob(10), PrivKeyBytes(Blob(10), 214)),
      Record("keymeta", Blob(10), Blob(3)),
      Record("minversion", <<>>, Blob(4)),
      Record("name", Str(2, 20), Str(1, 5)),
      Record("pool", I64(1), Blob(6)),
      Record("purpose", Str(2, 20), Str(1, 7)),
      Record("sapzaddr", Blob(30), Blob(40)),
      Record("sapzkey", Blob(40), Blob(40)),
      Record("sapzkeymeta", Blob(40), Blob(3)),
      Record("tx", Txid(1), Blob(60)),
      Record("version", <<>>, Blob(8)),
      Record("witnesscachesize", <<>>, I64(9)),
      Record("wkey", Blob(70), PrivKeyBytes(Blob(70), 279) \o I64(1) \o I64(2) \o Str(1, 71)),
      Record("zkey", Blob(50), Blob(51)),
      Record("zkeymeta", Blob(50), Blob(3)),
      Record("networkinfo", <<>>, Blob(12)),
      Record("orchard_note_commitment_tree", <<>>, U32(1) \o Blob(13)),
      Record("unifiedaddrmeta", Blob(80), U32(0)),
      Record("unifiedaccount", Blob(83) \o Blob(84), U32(0)),
      Record("unifiedfvk", Blob(84), Blob(85)),
      Record("mnemonicphrase", Blob(14), Blob(15)),
      Record("mnemonichdchain", <<>>, Blob(16)),
      Record("recipientmapping", Txid(1) \o Blob(90), Str(1, 91)) }

\* groups of records that may be put into a dump together, each record in
\* place of the dump's record of the same key, if any
Alternatives ==
    { \* transparent keys: a second pair; a key or a metadata record alone; 3
      \* key and 2 keymeta records; a secret of length 100; a wrong hash;
      \* malformed or misplaced metadata
      { Record("key", Blob(11), PrivKeyBytes(Blob(11), 214)),
        Record("keymeta", Blob(11), Blob(3)) },
      { Record("key", Blob(17), PrivKeyBytes(Blob(17), 214)) },
      { Record("key", Blob(11), PrivKeyBytes(Blob(11), 214)),
        Record("keymeta", Blob(11), Blob(3)),
        Record("key", Blob(17), PrivKeyBytes(Blob(17), 214)) },
      { Record("keymeta", Blob(21), Blob(3)) },
      { Record("key", Blob(18), PrivKeyBytes(Blob(18), 100)),
        Record("keymeta", Blob(18), Blob(3)) },
      { Record("key", Blob(19), PrivKeyBytes(Blob(10), 214)),
        Record("keymeta", Blob(19), Blob(3)) },
      { Record("keymeta", Blob(10), Bytes(BlobLen + 1, 3)) },
      { Record("key", Blob(12), PrivKeyBytes(Blob(12), 214)),
        Record("keymeta", Blob(13), Blob(3)) },
      \* address-keyed maps: a second entry, trailing key bytes, a short value
      { Record("name", Str(2, 22), Str(1, 5)) },
      { Record("name", Str(2, 23) \o <<0>>, Str(1, 5)) },
      { Record("name", Str(2, 20) \o <<0>>, Str(1, 5)) },
      { Record("name", Str(2, 24), <<3, 5>>) },
      { Record("purpose", Str(2, 22), Str(1, 7)) },
      { Record("purpose", <<253, 2, 0, 20, 20>>, Str(1, 7)) },
      { Record("pool", I64(2), Blob(6)) },
      { Record("sapzaddr", Blob(31), Blob(40)) },
      { Record("sapzaddr", Bytes(BlobLen + 1, 30), Blob(40)) },
      \* Sapling and Sprout keys with their metadata
      { Record("sapzkey", Blob(41), Blob(41)),
        Record("sapzkeymeta", Blob(41), Blob(3)) },
      { Record("sapzkeymeta", Blob(42), Blob(3)) },
      { Record("sapzkey", Blob(43), Blob(43)) },
      { Record("zkey", Blob(52), Blob(51)),
        Record("zkeymeta", Blob(52), Blob(3)) },
      { Record("zkeymeta", Blob(53), Blob(3)) },
      \* transactions: a second one, two with a malformed value, one with a
      \* short key, malformed values on both sides of the well-formed one
      { Record("tx", Txid(3), Blob(61)) },
      { Record("tx", Txid(0), Bytes(BlobLen - 1, 62)) },
      { Record("tx", Txid(2), Bytes(BlobLen + 1, 62)) },
      { Record("tx", Txid(0), Bytes(BlobLen - 1, 62)),
        Record("tx", Txid(2), Bytes(BlobLen + 1, 62)) },
      { Record("tx", Txid(1), <<>>) },
      { Record("tx", Bytes(31, 4), Blob(63)) },
      { Record("wkey", Blob(72), PrivKeyBytes(Blob(72), 214)) },
      { Record("wkey", Blob(73),
               PrivKeyBytes(Blob(73), 214) \o I64(1) \o I64(2) \o Str(1, 71)) },
      \* unified accounts
      { Record("unifiedaddrmeta", Blob(81), U32(0)) },
      { Record("unifiedaddrmeta", Blob(82), U32(1)) },
      { Record("unifiedaccount", Blob(86) \o Blob(87), U32(0)) },
      { Record("unifiedfvk", Blob(87), Bytes(BlobLen + 1, 85)) },
      \* recipient mappings: a second one of the same transaction, one of another
      { Record("recipientmapping", Txid(1) \o Blob(92), Str(1, 93)) },
      { Record("recipientmapping", Txid(3) \o Blob(90), Str(1, 91)) },
      \* optional scalars
      { Record("hdseed", Blob(14), Str(2, 94)) },
      { Record("hdseed", <<>>, Str(2, 94)) },
      { Record("orderposnext", <<>>, I64(7)) },
      { Record("orderposnext", <<>>, Bytes(7, 0)) },
      { Record("bestblock_nomerkle", <<>>, Blob(1)) },
      \* required scalars, malformed or doubled
      { Record("bestblock", <<>>, Bytes(BlobLen - 1, 1)) },
      { Record("version", <<>>, Bytes(BlobLen + 1, 8)) },
      { Record("orchard_note_commitment_tree", <<>>, <<1, 0, 0>>) },
      { Record("orchard_note_commitment_tree", <<>>, U32(1) \o Bytes(BlobLen - 1, 13)) },
      { Record("mnemonicphrase", Blob(95), Blob(15)) },
      \* keynames no decoder handles
      { Record("cscript", Blob(96), Blob(97)) },
      { Record("hdchain", <<>>, Blob(98)) } }

\* the dump with the records of group g put in
PutIn(d, g) == {r \in d : \A a \in g : r.key # a.key} \cup g

\* the dumps one change away from d
OneChange(d) ==
    { d \ {r} : r \in d \cap BaseDump } \cup { PutIn(d, g) : g \in Alternatives }

RECURSIVE Dumps(_)
Dumps(n) ==
    IF n = 0 THEN {BaseDump}
    ELSE Dumps(n - 1) \cup UNION {OneChange(d) : d \in Dumps(n - 1)}

(***************************************************************************)
(* ZcashdParser: the per-category decoders of src/zcashd_parser.rs, each   *)
(* as the result it computes; the actions below apply them.                *)
(***************************************************************************)
None == [some |-> FALSE]
Some(v) == [some |-> TRUE, value |-> v]

\* HashMap: a function from keys to values
EmptyMap == << >>
Insert(m, k, v) == [x \in (DOMAIN m) \cup {k} |-> IF x = k THEN v ELSE m[x]]

\* what entering a category decoder does: iterate records, return a value, or fail
Loop(records, init) == [ok |-> TRUE, loop |-> TRUE, records |-> records, init |-> init]
Return(v) == [ok |-> TRUE, loop |-> FALSE, value |-> v]

\* parse!(buf = value, T, description) on a looked-up scalar value
parse_scalar(value, T(_), description) ==
    Try(value, LAMBDA v : parse(parse_buf(T, v.value), description))

parse_i64(d, keyname) ==
    parse_scalar(dump_value_for_keyname(d, keyname), i64_parse,
                 "i64 for keyname: " \o keyname)
parse_client_version(d, keyname) ==
    parse_scalar(dump_value_for_keyname(d, keyname), Blob_parse,
                 "client version for keyname: " \o keyname)
parse_block_locator(d, keyname) ==
    parse_scalar(dump_value_for_keyname(d, keyname), Blob_parse,
                 "block locator for keyname: " \o keyname)
parse_default_key(d) ==
    parse_scalar(dump_value_for_keyname(d, "defaultkey"), Blob_parse, "defaultkey")
parse_mnemonic_hd_chain(d) ==
    parse_scalar(dump_value_for_keyname(d, "mnemonichdchain"), Blob_parse,
                 "mnemonichdchain")
parse_network_info(d) ==
    parse_scalar(context(dump_value_for_keyname(d, "networkinfo"),
                         "Getting 'networkinfo' record"),
                 Blob_parse, "network info")

\* parse_orchard_note_commitment_tree, once value[4..] has been taken
parse_orchard_note_commitment_tree(value) ==
    parse(parse_buf(Blob_parse, SubSeq(value, 5, Len(value))),
          "orchard note commitment tree")

\* a count comparison that only asks for enough metadata records
check_counts_enough(records, meta_records, message, init) ==
    IF Cardinality(records.value) < Cardinality(meta_records.value)
    THEN Err(Message(message))
    ELSE Loop(records.value, init)

\* the count comparison of a primary category with its metadata category
check_counts(records, meta_records, message, init) ==
    IF Cardinality(records.value) # Cardinality(meta_records.value)
    THEN Err(Message(message))
    ELSE Loop(records.value, init)

\* parse_keys up to its loop: both categories fetched, counts compared
parse_keys_begin(d) ==
    Try(context(records_for_keyname(d, "key"), "Getting 'key' records"),
        LAMBDA key_records :
    Try(context(records_for_keyname(d, "keymeta"), "Getting 'keymeta' records"),
        LAMBDA keymeta_records :
    check_counts(key_records, keymeta_records,
                 "Mismatched key and keymeta records", EmptyMap)))

\* one iteration of parse_keys' loop
parse_keys_record(d, keys_map, rec) ==
    Try(parse(parse_buf(Blob_parse, rec.key.data), "pubkey"), LAMBDA pubkey :
    Try(parse(parse_buf(PrivKey_parse, rec.value), "privkey"), LAMBDA privkey :
    Try(context(value_for_key(d, DBKey("keymeta", rec.key.data)), "Getting metadata"),
        LAMBDA metadata_binary :
    Try(parse(parse_buf(Blob_parse, metadata_binary.value), "metadata"),
        LAMBDA metadata :
    Try(context(KeyPair_new(pubkey.value, privkey.value, metadata.value),
                "Creating keypair"), LAMBDA keypair :
    Ok(Insert(keys_map, pubkey.value, keypair.value)))))))

\* parse_wallet_keys up to its loop
parse_wallet_keys_begin(d) ==
    IF ~has_keys_for_keyname(d, "wkey") THEN Return(None)
    ELSE Try(context(records_for_keyname(d, "wkey"), "Getting 'wkey' records"),
             LAMBDA key_records :
         IF key_records.value = {} THEN Return(None)
         ELSE Loop(key_records.value, Some(EmptyMap)))

\* one iteration of parse_wallet_keys' loop: the value is read field by field
\* from one parser, which is not checked to be finished
parse_wallet_keys_record(d, keys, rec) ==
    Try(parse(parse_buf(Blob_parse, rec.key.data), "pubkey"), LAMBDA pubkey :
    Try(parse(PrivKey_parse(Parser_new(rec.value)), "privkey"), LAMBDA privkey :
    Try(parse(i64_parse(privkey.parser), "time_created"), LAMBDA time_created :
    Try(parse(i64_parse(time_created.parser), "time_expires"), LAMBDA time_expires :
    Try(parse(String_parse(time_expires.parser), "comment"), LAMBDA comment :
    Ok(Some(Insert(keys.value, pubkey.value,
                   [pubkey |-> pubkey.value, privkey |-> privkey.value,
                    time_created |-> time_created.value,
                    time_expires |-> time_expires.value,
                    comment |-> comment.value]))))))))

\* parse_sapling_keys up to its loop
parse_sapling_keys_begin(d) ==
    IF ~has_keys_for_keyname(d, "sapzkey") THEN Return(EmptyMap)
    ELSE Try(context(records_for_keyname(d, "sapzkey"), "Getting 'sapzkey' records"),
             LAMBDA key_records :
         Try(context(records_for_keyname(d, "sapzkeymeta"),
                     "Getting 'sapzkeymeta' records"), LAMBDA keymeta_records :
         check_counts(key_records, keymeta_records,
                      "Mismatched sapzkey and sapzkeymeta records", EmptyMap)))

\* one iteration of parse_sapling_keys' loop
parse_sapling_keys_record(d, keys_map, rec) ==
    Try(parse(parse_buf(Blob_parse, rec.key.data), "ivk"), LAMBDA ivk :
    Try(parse(parse_buf(Blob_parse, rec.value), "spending_key"), LAMBDA spending_key :
    Try(context(value_for_key(d, DBKey("sapzkeymeta", rec.key.data)),
                "Getting sapzkeymeta metadata"), LAMBDA metadata_binary :
    Try(parse(parse_buf(Blob_parse, metadata_binary.value), "sapzkeymeta metadata"),
        LAMBDA metadata :
    Try(context(SaplingKey_new(ivk.value, spending_key.value, metadata.value),
                "Creating keypair"), LAMBDA keypair :
    Ok(Insert(keys_map, ivk.value, keypair.value)))))))

\* parse_sprout_keys up to its loop
parse_sprout_keys_begin(d) ==
    IF ~has_keys_for_keyname(d, "zkey") THEN Return(None)
    ELSE Try(context(records_for_keyname(d, "zkey"), "Getting 'zkey' records"),
             LAMBDA zkey_records :
         Try(context(records_for_keyname(d, "zkeymeta"), "Getting 'zkeymeta' records"),
             LAMBDA zkeymeta_records :
         check_counts(zkey_records, zkeymeta_records,
                      "Mismatched zkey and zkeymeta records", Some(EmptyMap))))

\* one iteration of parse_sprout_keys' loop
parse_sprout_keys_record(d, zkeys, rec) ==
    Try(parse(parse_buf(Blob_parse, rec.key.data), "payment_address"),
        LAMBDA payment_address :
    Try(parse(parse_buf(Blob_parse, rec.value), "spending_key"), LAMBDA spending_key :
    Try(context(value_for_key(d, DBKey("zkeymeta", rec.key.data)), "Getting metadata"),
        LAMBDA metadata_binary :
    Try(parse(parse_buf(Blob_parse, metadata_binary.value), "metadata"),
        LAMBDA metadata :
    Ok(Some(Insert(zkeys.value, payment_address.value,
                   [spending_key |-> spending_key.value,
                    metadata |-> metadata.value])))))))

\* parse_send_recipients up to its loop
parse_send_recipients_begin(d) ==
    IF ~has_keys_for_keyname(d, "recipientmapping") THEN Return(EmptyMap)
    ELSE Try(context(records_for_keyname(d, "recipientmapping"),
                     "Getting 'recipientmapping' records"), LAMBDA records :
         Loop(records.value, EmptyMap))

\* an insertion that replaces the list of the transaction
push_recipient_replace(send_recipients, txid, recipient_mapping) ==
    Insert(send_recipients, txid, <<recipient_mapping>>)

\* send_recipients.entry(txid).or_default().push(recipient_mapping)
push_recipient(send_recipients, txid, recipient_mapping) ==
    Insert(send_recipients, txid,
           Append(IF txid \in DOMAIN send_recipients
                  THEN send_recipients[txid] ELSE << >>,
                  recipient_mapping))

\* one iteration of parse_send_recipients' loop: the mapping is pushed onto the
\* list of its transaction, which is created on first use
parse_send_recipients_record(d, send_recipients, rec) ==
    Try(parse(TxId_parse(Parser_new(rec.key.data)), "txid"), LAMBDA txid :
    Try(parse(Blob_parse(txid.parser), "recipient_address"), LAMBDA recipient_address :
    Try(Parser_check_finished(recipient_address.parser), LAMBDA finished :
    Try(parse(parse_buf(String_parse, rec.value), "unified_address"),
        LAMBDA unified_address :
    Ok(push_recipient(send_recipients, txid.value,
                      [recipient_address |-> recipient_address.value,
                       unified_address |-> unified_address.value]))))))

\* UnifiedAccounts::none() and the three parts UnifiedAccounts::new is given
UnifiedAccounts_none ==
    [address_metadata |-> << >>, full_viewing_keys |-> EmptyMap,
     account_metadata |-> EmptyMap]

\* parse_unified_accounts up to its first loop
parse_unified_accounts_begin(d) ==
    IF ~has_keys_for_keyname(d, "unifiedaddrmeta") THEN Return(UnifiedAccounts_none)
    ELSE Try(records_for_keyname(d, "unifiedaddrmeta"),
             LAMBDA address_metadata_records :
         Loop(address_metadata_records.value, UnifiedAccounts_none))

\* the value of a unifiedaddrmeta / unifiedaccount record must be 0u32
check_zero(v, message, result) ==
    IF v.value # ToLittleEndian(0, 4) THEN Err(Bail(message, v.value)) ELSE Ok(result)

\* one iteration of the unifiedaddrmeta loop
parse_unified_address_metadata_record(d, accounts, rec) ==
    Try(parse(parse_buf(Blob_parse, rec.key.data), "UnifiedAddressMetadata key"),
        LAMBDA metadata :
    Try(parse(parse_buf(u32_parse, rec.value), "UnifiedAddressMetadata value"),
        LAMBDA v :
    check_zero(v, "Unexpected value for UnifiedAddressMetadata",
               [accounts EXCEPT
                  !.address_metadata = Append(accounts.address_metadata,
                                              metadata.value)])))

\* the second and third loops start by fetching their category
parse_unified_account_metadata_begin(d, accounts) ==
    Try(records_for_keyname(d, "unifiedaccount"), LAMBDA account_metadata_records :
    Loop(account_metadata_records.value, accounts))

\* one iteration of the unifiedaccount loop
parse_unified_account_metadata_record(d, accounts, rec) ==
    Try(parse(parse_buf(UnifiedAccountMetadata_parse, rec.key.data),
              "UnifiedAccountMetadata key"), LAMBDA metadata :
    Try(parse(parse_buf(u32_parse, rec.value), "UnifiedAccountMetadata value"),
        LAMBDA v :
    check_zero(v, "Unexpected value for UnifiedAccountMetadata",
               [accounts EXCEPT
                  !.account_metadata = Insert(accounts.account_metadata,
                                              metadata.value.ufvk_fingerprint,
                                              metadata.value)])))

parse_unified_fvk_begin(d, accounts) ==
    Try(records_for_keyname(d, "unifiedfvk"), LAMBDA full_viewing_keys_records :
    Loop(full_viewing_keys_records.value, accounts))

\* one iteration of the unifiedfvk loop
parse_unified_fvk_record(d, accounts, rec) ==
    Try(parse(parse_buf(Blob_parse, rec.key.data), "UnifiedFullViewingKey key"),
        LAMBDA key_id :
    Try(parse(parse_buf(Blob_parse, rec.value), "UnifiedFullViewingKey value"),
        LAMBDA fvk :
    Ok([accounts EXCEPT
          !.full_viewing_keys = Insert(accounts.full_viewing_keys, key_id.value,
                                       fvk.value)])))

\* parse_hdseed, given that has_value_for_keyname("hdseed") held
parse_hdseed_record(d) ==
    Try(context(record_for_keyname(d, "hdseed"), "Getting 'hdseed' record"),
        LAMBDA rec :
    Try(parse(parse_buf(Blob_parse, rec.value.key.data), "seed fingerprint"),
        LAMBDA fingerprint :
    Try(parse(parse_buf(String_parse, rec.value.value), "legacy seed data"),
        LAMBDA seed_data :
    [ok |-> TRUE, key |-> rec.value.key,
     value |-> Some([seed_data |-> seed_data.value,
                     fingerprint |-> Some(fingerprint.value)])])))

\* parse_mnemonic_phrase
parse_mnemonic_phrase(d) ==
    Try(context(record_for_keyname(d, "mnemonicphrase"),
                "Getting 'mnemonicphrase' record"), LAMBDA rec :
    Try(parse(parse_buf(Blob_parse, rec.value.key.data), "seed fingerprint"),
        LAMBDA fingerprint :
    Try(parse(parse_buf(Blob_parse, rec.value.value), "mnemonic phrase"),
        LAMBDA bip39_mnemonic :
    [ok |-> TRUE, key |-> rec.value.key,
     value |-> [mnemonic |-> bip39_mnemonic.value,
                fingerprint |-> fingerprint.value]])))

\* parse_address_names / parse_address_purposes up to their loops
parse_address_names_begin(d) ==
    Try(context(records_for_keyname(d, "name"), "Getting 'name' records"),
        LAMBDA records : Loop(records.value, EmptyMap))
parse_address_purposes_begin(d) ==
    Try(context(records_for_keyname(d, "purpose"), "Getting 'purpose' records"),
        LAMBDA records : Loop(records.value, EmptyMap))

\* if map.contains_key(&k) { bail!(message, k) } map.insert(k, v)
insert_new(map, k, v, message) ==
    IF k \in DOMAIN map THEN Err(Bail(message, k)) ELSE Ok(Insert(map, k, v))

\* an iteration that takes the address from the front of the key and does
\* not look at what follows it
parse_address_names_record_front(d, address_names, rec) ==
    Try(parse(Address_parse(Parser_new(rec.key.data)), "address"), LAMBDA address :
    Try(parse(parse_buf(String_parse, rec.value), "name"), LAMBDA name :
    insert_new(address_names, address.value, name.value, "Duplicate address found")))

\* one iteration of parse_address_names' loop
parse_address_names_record(d, address_names, rec) ==
    Try(parse(parse_buf(Address_parse, rec.key.data), "address"), LAMBDA address :
    Try(parse(parse_buf(String_parse, rec.value), "name"), LAMBDA name :
    insert_new(address_names, address.value, name.value, "Duplicate address found")))

\* one iteration of parse_address_purposes' loop
parse_address_purposes_record(d, address_purposes, rec) ==
    Try(parse(parse_buf(Address_parse, rec.key.data), "address"), LAMBDA address :
    Try(parse(parse_buf(String_parse, rec.value), "purpose"), LAMBDA purpose :
    insert_new(address_purposes, address.value, purpose.value,
               "Duplicate address found")))

\* parse_sapling_z_addresses up to its loop
parse_sapling_z_addresses_begin(d) ==
    IF ~has_keys_for_keyname(d, "sapzaddr") THEN Return(EmptyMap)
    ELSE Try(context(records_for_keyname(d, "sapzaddr"), "Getting 'sapzaddr' records"),
             LAMBDA records : Loop(records.value, EmptyMap))

\* one iteration of parse_sapling_z_addresses' loop
parse_sapling_z_addresses_record(d, sapling_z_addresses, rec) ==
    Try(parse(parse_buf(Blob_parse, rec.key.data), "payment address"),
        LAMBDA payment_address :
    Try(parse(parse_buf(Blob_parse, rec.value), "viewing key"), LAMBDA viewing_key :
    insert_new(sapling_z_addresses, payment_address.value, viewing_key.value,
               "Duplicate payment address found")))

\* parse_key_pool up to its loop
parse_key_pool_begin(d) ==
    Try(context(records_for_keyname(d, "pool"), "Getting 'pool' records"),
        LAMBDA records : Loop(records.value, EmptyMap))

\* one iteration of parse_key_pool's loop
parse_key_pool_record(d, key_pool, rec) ==
    Try(parse(parse_buf(i64_parse, rec.key.data), "key pool index"), LAMBDA index :
    Try(parse(parse_buf(Blob_parse, rec.value), "key pool entry"), LAMBDA entry :
    Ok(Insert(key_pool, index.value, entry.value))))

\* Vec<u8>::cmp: lexicographic order on byte sequences
RECURSIVE BytesLess(_, _)
BytesLess(a, b) ==
    IF b = << >> THEN FALSE
    ELSE IF a = << >> THEN TRUE
    ELSE IF Head(a) # Head(b) THEN Head(a) < Head(b)
    ELSE BytesLess(Tail(a), Tail(b))

\* the record that sorts first
least_record(records) ==
    CHOOSE r \in records : \A q \in records \ {r} : BytesLess(r.key.data, q.key.data)

\* a sort with the comparison turned round: key2.data.cmp(&key1.data)
RECURSIVE sort_by_key_data_descending(_)
sort_by_key_data_descending(records) ==
    IF records = {} THEN << >>
    ELSE sort_by_key_data_descending(records \ {least_record(records)})
         \o <<least_record(records)>>

\* sorted_records.sort_by(|(key1, _), (key2, _)| key1.data.cmp(&key2.data))
RECURSIVE sort_by_key_data(_)
sort_by_key_data(records) ==
    IF records = {} THEN << >>
    ELSE <<least_record(records)>>
         \o sort_by_key_data(records \ {least_record(records)})

\* parse_transactions up to its loop
parse_transactions_begin(d) ==
    IF ~has_keys_for_keyname(d, "tx") THEN Return(EmptyMap)
    ELSE Try(context(records_for_keyname(d, "tx"), "Getting 'tx' records"),
             LAMBDA records :
         [ok |-> TRUE, loop |-> TRUE, records |-> records.value,
          sorted |-> sort_by_key_data(records.value), init |-> EmptyMap])

\* a match whose skipping arm does not look at the policy
parse_transaction_value_skipping(strict_, transactions, txid, transaction) ==
    IF transaction.ok
    THEN IF txid \in DOMAIN transactions
         THEN Err(Bail("Duplicate transaction found", txid))
         ELSE [ok |-> TRUE, skipped |-> FALSE,
               value |-> Insert(transactions, txid, transaction.value)]
    ELSE [ok |-> TRUE, skipped |-> TRUE, value |-> transactions]

\* match transaction { Ok => insert unless present, Err if !strict => skip,
\* Err => return it }
parse_transaction_value(strict_, transactions, txid, transaction) ==
    IF transaction.ok
    THEN IF txid \in DOMAIN transactions
         THEN Err(Bail("Duplicate transaction found", txid))
         ELSE [ok |-> TRUE, skipped |-> FALSE,
               value |-> Insert(transactions, txid, transaction.value)]
    ELSE IF ~strict_
         THEN [ok |-> TRUE, skipped |-> TRUE, value |-> transactions]
         ELSE transaction

\* an iteration that, under the lenient policy, also skips a record whose key
\* is no transaction id
parse_transactions_record_lax(strict_, transactions, rec) ==
    IF ~strict_ /\ ~parse_buf(TxId_parse, rec.key.data).ok
    THEN [ok |-> TRUE, skipped |-> TRUE, value |-> transactions]
    ELSE Try(parse(parse_buf(TxId_parse, rec.key.data), "transaction ID"), LAMBDA txid :
         parse_transaction_value(strict_, transactions, txid.value,
                                 parse(parse_buf(Blob_parse, rec.value), "transaction")))

\* one iteration of parse_transactions' loop, up to mark_key_parsed: the new
\* map, and whether the record was skipped with a diagnostic
parse_transactions_record(strict_, transactions, rec) ==
    Try(parse(parse_buf(TxId_parse, rec.key.data), "transaction ID"), LAMBDA txid :
    parse_transaction_value(strict_, transactions, txid.value,
                            parse(parse_buf(Blob_parse, rec.value), "transaction")))

(***************************************************************************)
(* One pass of ZcashdParser::parse, category by category. A category loop  *)
(* over a HashMap takes its records in any order, one per step.            *)
(***************************************************************************)
Running == [state |-> "running"]
Returned(w, unparsed) == [state |-> "ok", wallet |-> w, unparsed |-> unparsed]
Failed(e) == [state |-> "err", error |-> e]
Panicked == [state |-> "panic"]

NoLoop == [active |-> FALSE, records |-> {}, sorted |-> << >>]
Unset == [unset |-> TRUE]

WalletFields ==
    {"bestblock", "default_key", "legacy_hd_seed", "keys", "min_version",
     "address_names", "orderposnext", "key_pool", "address_purposes",
     "sapling_z_addresses", "sapling_keys", "transactions", "client_version",
     "witnesscachesize", "wallet_keys", "sprout_keys", "network_info",
     "orchard_note_commitment_tree", "unified_accounts", "mnemonic_phrase",
     "mnemonic_hd_chain", "send_recipients", "bestblock_nomerkle"}

\* a pending set made of the records the category decoders will ask for
new_unparsed_keys_known(d) ==
    {r.key : r \in {q \in d : q.key.keyname \in
                      {"bestblock", "defaultkey", "key", "keymeta", "minversion",
                       "name", "pool", "purpose", "tx", "version", "witnesscachesize",
                       "networkinfo", "mnemonicphrase", "mnemonichdchain"}}}

\* ZcashdParser::new: every key of the dump is unparsed
new_unparsed_keys(d) == {r.key : r \in d}

AddMarks(m, keys) ==
    [k \in (DOMAIN m) \cup keys |->
        (IF k \in DOMAIN m THEN m[k] ELSE 0) + (IF k \in keys THEN 1 ELSE 0)]

\* mark_key_parsed on each of `keys`
mark_key_parsed(keys) ==
    /\ unparsed_keys' = unparsed_keys \ keys
    /\ marks' = AddMarks(marks, keys)

\* `?`: the error leaves parse() and is what parse_dump returns
Throw(e) ==
    /\ outcome' = Failed(e)
    /\ UNCHANGED <<pc, wallet, decoded, todo, diagnostics>>

Input == UNCHANGED <<dump, strict, run, first, dbuf, dpos, dpc, dlen, ddata, dres>>
Fixed == Input /\ UNCHANGED order

\* a scalar decoded through value_for_keyname, which marks the keyname's key
\* parsed before it looks the value up
ScalarRequired(keyname, res, field, wrap(_), next) ==
    /\ mark_key_parsed({key_for_keyname(keyname)})
    /\ IF res.ok
       THEN /\ wallet' = [wallet EXCEPT ![field] = wrap(res.value)]
            /\ decoded' = decoded \cup {key_for_keyname(keyname)}
            /\ pc' = next
            /\ UNCHANGED <<outcome, todo, diagnostics>>
       ELSE Throw(res.error)
    /\ Fixed

Identity(v) == v

\* a step that sets a local of parse() and touches no record
SetField(field, v, next) ==
    /\ wallet' = [wallet EXCEPT ![field] = v]
    /\ pc' = next
    /\ UNCHANGED <<unparsed_keys, marks, decoded, outcome, todo, diagnostics>>
    /\ Fixed

\* parse_opt_i64 / parse_opt_block_locator: absent unless the keyname has a value
ScalarOptional(keyname, res, field, next) ==
    IF has_value_for_keyname(dump, keyname)
    THEN ScalarRequired(keyname, res, field, Some, next)
    ELSE SetField(field, None, next)

\* a decoder that looks its one record up itself and marks it once decoded
SingleRecord(res, field, next) ==
    /\ IF res.ok
       THEN /\ wallet' = [wallet EXCEPT ![field] = res.value]
            /\ mark_key_parsed({res.key})
            /\ decoded' = decoded \cup {res.key}
            /\ pc' = next
            /\ UNCHANGED <<outcome, todo, diagnostics>>
       ELSE Throw(res.error) /\ UNCHANGED <<unparsed_keys, marks>>
    /\ Fixed

\* entering a category decoder: it fails, returns at once, or starts its loop
EnterLoop(begin, sorted, field, skipTo) ==
    /\ IF ~begin.ok THEN Throw(begin.error)
       ELSE IF ~begin.loop
       THEN /\ wallet' = [wallet EXCEPT ![field] = begin.value]
            /\ pc' = skipTo
            /\ UNCHANGED <<outcome, decoded, todo, diagnostics>>
       ELSE /\ wallet' = [wallet EXCEPT ![field] = begin.init]
            /\ todo' = [active |-> TRUE, records |-> begin.records, sorted |-> sorted]
            /\ UNCHANGED <<pc, outcome, decoded, diagnostics>>
    /\ UNCHANGED <<unparsed_keys, marks>>

\* one iteration of a category loop on record rec with result r: the keys it
\* marks are marked only if the iteration did not fail
Iterate(rec, r, keys, field, next) ==
    IF ~r.ok THEN Throw(r.error) /\ UNCHANGED <<unparsed_keys, marks>>
    ELSE /\ wallet' = [wallet EXCEPT ![field] = r.value]
         /\ mark_key_parsed(keys)
         /\ decoded' = decoded \cup keys
         /\ IF todo.records = {rec}
            THEN pc' = next /\ todo' = NoLoop
            ELSE pc' = pc /\ todo' = [todo EXCEPT !.records = @ \ {rec}]
         /\ UNCHANGED <<outcome, diagnostics>>

\* where key k stands in the sequence of keys seq
IndexOf(seq, k) == CHOOSE i \in 1..Len(seq) : seq[i] = k

\* the records of a loop that the store's iterator may yield next: any of
\* them, but on the store an earlier pass ran on, the one that pass took first
\* (Taken: those it took; Earliest: the one it took before the others)
Taken(records, seq) == {r \in records : \E i \in 1..Len(seq) : seq[i] = r.key}

Earliest(records, seq) ==
    {r \in records : \A q \in records : IndexOf(seq, r.key) <= IndexOf(seq, q.key)}

Enumerated(records) ==
    IF first.same_store /\ Taken(records, first.order) # {}
    THEN Earliest(Taken(records, first.order), first.order)
    ELSE records

\* a category decoder with a loop over a HashMap's records: `begin` is what it
\* does before the loop, Record_ one iteration, Keys the keys an iteration marks
CategoryLoop(begin, Record_(_, _, _), Keys(_), field, next, skipTo) ==
    /\ IF ~todo.active
       THEN EnterLoop(begin, << >>, field, skipTo) /\ order' = order
       ELSE \E rec \in Enumerated(todo.records) :
               /\ Iterate(rec, Record_(dump, wallet[field], rec), Keys(rec), field, next)
               /\ order' = Append(order, rec.key)
    /\ Input

OwnKey(rec) == {rec.key}

At(step) == pc = step /\ outcome = Running

ParseBestBlock ==
    /\ At("bestblock")
    /\ ScalarRequired("bestblock", parse_block_locator(dump, "bestblock"),
                      "bestblock", Identity, "defaultkey")

ParseDefaultKey ==
    /\ At("defaultkey")
    /\ ScalarRequired("defaultkey", parse_default_key(dump), "default_key",
                      Identity, "hdseed")

ParseHdSeed ==
    /\ At("hdseed")
    /\ IF has_value_for_keyname(dump, "hdseed")
       THEN SingleRecord(parse_hdseed_record(dump), "legacy_hd_seed", "key")
       ELSE SetField("legacy_hd_seed", None, "key")

\* an iteration that marks the key record and forgets its metadata record
KeysOfKeyPair_primary(rec) == {rec.key}

\* self.mark_key_parsed(&key); self.mark_key_parsed(&metakey);
KeysOfKeyPair(rec) == {rec.key, DBKey("keymeta", rec.key.data)}
ParseKeys ==
    /\ At("key")
    /\ CategoryLoop(parse_keys_begin(dump), parse_keys_record, KeysOfKeyPair,
                    "keys", "minversion", "minversion")

ParseMinVersion ==
    /\ At("minversion")
    /\ ScalarRequired("minversion", parse_client_version(dump, "minversion"),
                      "min_version", Identity, "name")

ParseAddressNames ==
    /\ At("name")
    /\ CategoryLoop(parse_address_names_begin(dump), parse_address_names_record,
                    OwnKey, "address_names", "orderposnext", "orderposnext")

ParseOrderPosNext ==
    /\ At("orderposnext")
    /\ ScalarOptional("orderposnext", parse_i64(dump, "orderposnext"),
                      "orderposnext", "pool")

ParseKeyPool ==
    /\ At("pool")
    /\ CategoryLoop(parse_key_pool_begin(dump), parse_key_pool_record, OwnKey,
                    "key_pool", "purpose", "purpose")

ParseAddressPurposes ==
    /\ At("purpose")
    /\ CategoryLoop(parse_address_purposes_begin(dump), parse_address_purposes_record,
                    OwnKey, "address_purposes", "sapzaddr", "sapzaddr")

ParseSaplingZAddresses ==
    /\ At("sapzaddr")
    /\ CategoryLoop(parse_sapling_z_addresses_begin(dump),
                    parse_sapling_z_addresses_record, OwnKey,
                    "sapling_z_addresses", "sapzkey", "sapzkey")

KeysOfSaplingKey(rec) == {rec.key, DBKey("sapzkeymeta", rec.key.data)}
ParseSaplingKeys ==
    /\ At("sapzkey")
    /\ CategoryLoop(parse_sapling_keys_begin(dump), parse_sapling_keys_record,
                    KeysOfSaplingKey, "sapling_keys", "tx", "tx")

\* an iteration that marks a decoded record in the Ok arm and again after
\* the match
IterateTransaction_twice(rec, r) ==
    IF ~r.ok THEN Throw(r.error) /\ UNCHANGED <<unparsed_keys, marks>>
    ELSE /\ wallet' = [wallet EXCEPT !.transactions = r.value]
         /\ diagnostics' = IF r.skipped THEN Append(diagnostics, rec) ELSE diagnostics
         /\ decoded' = IF r.skipped THEN decoded ELSE decoded \cup {rec.key}
         /\ unparsed_keys' = unparsed_keys \ {rec.key}
         /\ marks' = IF r.skipped THEN AddMarks(marks, {rec.key})
                     ELSE AddMarks(AddMarks(marks, {rec.key}), {rec.key})
         /\ IF Len(todo.sorted) = 1
            THEN pc' = "version" /\ todo' = NoLoop
            ELSE pc' = pc /\ todo' = [todo EXCEPT !.records = @ \ {rec},
                                                  !.sorted = Tail(@)]
         /\ outcome' = outcome

\* one iteration of parse_transactions' loop on the first record in sorted
\* order: the record is marked parsed unless the iteration returned an error
IterateTransaction(rec, r) ==
    IF ~r.ok THEN Throw(r.error) /\ UNCHANGED <<unparsed_keys, marks>>
    ELSE /\ wallet' = [wallet EXCEPT !.transactions = r.value]
         /\ diagnostics' = IF r.skipped THEN Append(diagnostics, rec) ELSE diagnostics
         /\ decoded' = IF r.skipped THEN decoded ELSE decoded \cup {rec.key}
         /\ mark_key_parsed({rec.key})
         /\ IF Len(todo.sorted) = 1
            THEN pc' = "version" /\ todo' = NoLoop
            ELSE pc' = pc /\ todo' = [todo EXCEPT !.records = @ \ {rec},
                                                  !.sorted = Tail(@)]
         /\ outcome' = outcome

\* the sorted record list parse_transactions iterates
SortedOf(begin) == IF begin.ok /\ begin.loop THEN begin.sorted ELSE << >>

ParseTransactions ==
    /\ At("tx")
    /\ IF ~todo.active
       THEN EnterLoop(parse_transactions_begin(dump),
                      SortedOf(parse_transactions_begin(dump)),
                      "transactions", "version")
       ELSE IterateTransaction(Head(todo.sorted),
                               parse_transactions_record(strict, wallet.transactions,
                                                         Head(todo.sorted)))
    /\ Fixed

ParseVersion ==
    /\ At("version")
    /\ ScalarRequired("version", parse_client_version(dump, "version"),
                      "client_version", Identity, "witnesscachesize")

ParseWitnessCacheSize ==
    /\ At("witnesscachesize")
    /\ ScalarRequired("witnesscachesize", parse_i64(dump, "witnesscachesize"),
                      "witnesscachesize", Identity, "wkey")

ParseWalletKeys ==
    /\ At("wkey")
    /\ CategoryLoop(parse_wallet_keys_begin(dump), parse_wallet_keys_record, OwnKey,
                    "wallet_keys", "zkey", "zkey")

KeysOfSproutKey(rec) == {rec.key, DBKey("zkeymeta", rec.key.data)}
ParseSproutKeys ==
    /\ At("zkey")
    /\ CategoryLoop(parse_sprout_keys_begin(dump), parse_sprout_keys_record,
                    KeysOfSproutKey, "sprout_keys", "networkinfo", "networkinfo")

ParseNetworkInfo ==
    /\ At("networkinfo")
    /\ ScalarRequired("networkinfo", parse_network_info(dump), "network_info",
                      Identity, "orchard_note_commitment_tree")

\* value_for_keyname("orchard_note_commitment_tree") with its context
orchard_value(d) ==
    context(dump_value_for_keyname(d, "orchard_note_commitment_tree"),
            "Getting 'orchard_note_commitment_tree' record")

\* parse_orchard_note_commitment_tree on the looked-up value: value.as_data()[4..]
\* panics on a value of fewer than 4 bytes
OrchardTree(value) ==
    IF value.ok /\ Len(value.value) < 4
    THEN /\ mark_key_parsed({key_for_keyname("orchard_note_commitment_tree")})
         /\ outcome' = Panicked
         /\ UNCHANGED <<pc, wallet, decoded, todo, diagnostics>>
         /\ Fixed
    ELSE ScalarRequired("orchard_note_commitment_tree",
                        Try(value, LAMBDA v : parse_orchard_note_commitment_tree(v.value)),
                        "orchard_note_commitment_tree", Identity, "unifiedaddrmeta")

ParseOrchardNoteCommitmentTree ==
    /\ At("orchard_note_commitment_tree")
    /\ OrchardTree(orchard_value(dump))

\* parse_unified_accounts: three loops, skipped together when the dump has no
\* unifiedaddrmeta record
ParseUnifiedAddressMetadata ==
    /\ At("unifiedaddrmeta")
    /\ CategoryLoop(parse_unified_accounts_begin(dump),
                    parse_unified_address_metadata_record, OwnKey,
                    "unified_accounts", "unifiedaccount", "mnemonicphrase")

ParseUnifiedAccountMetadata ==
    /\ At("unifiedaccount")
    /\ CategoryLoop(parse_unified_account_metadata_begin(dump, wallet.unified_accounts),
                    parse_unified_account_metadata_record, OwnKey,
                    "unified_accounts", "unifiedfvk", "unifiedfvk")

ParseUnifiedFullViewingKeys ==
    /\ At("unifiedfvk")
    /\ CategoryLoop(parse_unified_fvk_begin(dump, wallet.unified_accounts),
                    parse_unified_fvk_record, OwnKey,
                    "unified_accounts", "mnemonicphrase", "mnemonicphrase")

ParseMnemonicPhrase ==
    /\ At("mnemonicphrase")
    /\ SingleRecord(parse_mnemonic_phrase(dump), "mnemonic_phrase", "mnemonichdchain")

ParseMnemonicHdChain ==
    /\ At("mnemonichdchain")
    /\ ScalarRequired("mnemonichdchain", parse_mnemonic_hd_chain(dump),
                      "mnemonic_hd_chain", Identity, "recipientmapping")

ParseSendRecipients ==
    /\ At("recipientmapping")
    /\ CategoryLoop(parse_send_recipients_begin(dump), parse_send_recipients_record,
                    OwnKey, "send_recipients", "bestblock_nomerkle",
                    "bestblock_nomerkle")

ParseBestBlockNoMerkle ==
    /\ At("bestblock_nomerkle")
    /\ ScalarOptional("bestblock_nomerkle",
                      parse_block_locator(dump, "bestblock_nomerkle"),
                      "bestblock_nomerkle", "wallet")

\* ZcashdWallet::new(...) and Ok((wallet, self.unparsed_keys.borrow().clone()))
ReturnWallet ==
    /\ At("wallet")
    /\ outcome' = Returned(wallet, unparsed_keys)
    /\ pc' = "done"
    /\ UNCHANGED <<unparsed_keys, marks, wallet, decoded, todo, diagnostics>>
    /\ Fixed

\* parse_dump(dump, strict) up to the first statement of parse()
PassInit(d, s) ==
    /\ dump = d
    /\ strict = s
    /\ unparsed_keys = new_unparsed_keys(d)
    /\ pc = "bestblock"
    /\ todo = NoLoop
    /\ wallet = [f \in WalletFields |-> Unset]
    /\ outcome = Running
    /\ decoded = {}
    /\ diagnostics = << >>
    /\ marks = << >>
    /\ order = << >>

\* no PrivKey decode is going on
DecodeIdle ==
    /\ dbuf = << >> /\ dpos = 0 /\ dpc = "idle" /\ dlen = U64(0)
    /\ ddata = << >> /\ dres = Running

\* no earlier pass to compare with
NoFirst ==
    [dump |-> {}, strict |-> FALSE, outcome |-> Running, pc |-> "bestblock",
     order |-> << >>, same_store |-> FALSE]

Init ==
    /\ \E d \in Dumps(MaxChanges), s \in BOOLEAN : PassInit(d, s)
    /\ run = 1
    /\ first = NoFirst
    /\ DecodeIdle

Next ==
    \/ ParseBestBlock
    \/ ParseDefaultKey
    \/ ParseHdSeed
    \/ ParseKeys
    \/ ParseMinVersion
    \/ ParseAddressNames
    \/ ParseOrderPosNext
    \/ ParseKeyPool
    \/ ParseAddressPurposes
    \/ ParseSaplingZAddresses
    \/ ParseSaplingKeys
    \/ ParseTransactions
    \/ ParseVersion
    \/ ParseWitnessCacheSize
    \/ ParseWalletKeys
    \/ ParseSproutKeys
    \/ ParseNetworkInfo
    \/ ParseOrchardNoteCommitmentTree
    \/ ParseUnifiedAddressMetadata
    \/ ParseUnifiedAccountMetadata
    \/ ParseUnifiedFullViewingKeys
    \/ ParseMnemonicPhrase
    \/ ParseMnemonicHdChain
    \/ ParseSendRecipients
    \/ ParseBestBlockNoMerkle
    \/ ReturnWallet

Spec == Init /\ [][Next]_vars

(***************************************************************************)
(* A second pass, to compare two calls of parse_dump: on the same records  *)
(* (which the store may enumerate in another order), with the other        *)
(* policy, or without the records no category decoder handles.             *)
(***************************************************************************)
Keynames ==
    {"bestblock", "defaultkey", "hdseed", "key", "keymeta", "minversion", "name",
     "orderposnext", "pool", "purpose", "sapzaddr", "sapzkey", "sapzkeymeta", "tx",
     "version", "witnesscachesize", "wkey", "zkey", "zkeymeta", "networkinfo",
     "orchard_note_commitment_tree", "unifiedaddrmeta", "unifiedaccount",
     "unifiedfvk", "mnemonicphrase", "mnemonichdchain", "recipientmapping",
     "bestblock_nomerkle"}

\* the records of d whose keyname some category decoder of parse() asks for
Recognized(d) == {r \in d : r.key.keyname \in Keynames}

\* the calls a pass over (d, s) is compared with: on a store rebuilt from the
\* same records, on the same store with the other policy, and on a store
\* built without the records no decoder handles
Variants(d, s) ==
    {[dump |-> d, strict |-> s, same_store |-> FALSE],
     [dump |-> d, strict |-> ~s, same_store |-> TRUE],
     [dump |-> Recognized(d), strict |-> s, same_store |-> FALSE]}

Terminated == outcome.state # "running"

\* parse_dump called again, once the first call has ended
Rerun ==
    /\ run = 1
    /\ Terminated
    /\ \E v \in Variants(dump, strict) :
          /\ dump' = v.dump
          /\ strict' = v.strict
          /\ unparsed_keys' = new_unparsed_keys(v.dump)
          /\ first' = [dump |-> dump, strict |-> strict, outcome |-> outcome,
                       pc |-> pc, order |-> order, same_store |-> v.same_store]
    /\ pc' = "bestblock"
    /\ todo' = NoLoop
    /\ wallet' = [f \in WalletFields |-> Unset]
    /\ outcome' = Running
    /\ decoded' = {}
    /\ diagnostics' = << >>
    /\ marks' = << >>
    /\ order' = << >>
    /\ run' = 2
    /\ UNCHANGED decVars

NextTwice == Next \/ Rerun

SpecTwice == Init /\ [][NextTwice]_vars

(***************************************************************************)
(* PrivKey::parse on a standalone buffer, one read per step.               *)
(***************************************************************************)
\* how far the buffers tried are from holding exactly length + 32 bytes
MaxSlack == 1

\* the declared lengths tried
PrivKeyLengths == {0, 1, 100, 213, 214, 215, 252, 253, 278, 279, 280, 300}

\* how many bytes follow the length prefix
BodyLengths(length) ==
    {0, length} \cup {n \in (length + 32 - MaxSlack)..(length + 32 + MaxSlack) : n >= 0}

\* length prefixes that are cut short, not minimal, or beyond 32 bits
OddPrefixes ==
    { << >>, <<253>>, <<253, 214>>, <<253, 214, 0>>, <<253, 23, 1>>,
      <<254, 214, 0, 0, 0>>, <<254, 0, 0, 1, 0>>,
      <<255, 214, 0, 0, 0, 0, 0, 0, 0>>, <<255, 214, 0, 0, 0, 1, 0, 0, 0>> }

PrivKeyBuffers ==
    { CompactSize_encode(length) \o SecretBytes(n) :
        length \in PrivKeyLengths, n \in UNION {BodyLengths(l) : l \in PrivKeyLengths} }
    \cup { prefix \o SecretBytes(n) : prefix \in OddPrefixes, n \in {0, 214 + 32} }

PassIdle ==
    /\ dump = {} /\ strict = FALSE /\ unparsed_keys = {} /\ pc = "idle"
    /\ todo = NoLoop /\ wallet = << >> /\ outcome = Running /\ decoded = {}
    /\ diagnostics = << >> /\ marks = << >> /\ order = << >>
    /\ run = 1 /\ first = NoFirst

InitPrivKey ==
    /\ dbuf \in PrivKeyBuffers
    /\ dpos = 0
    /\ dpc = "size"
    /\ dlen = U64(0)
    /\ ddata = << >>
    /\ dres = Running
    /\ PassIdle

\* Ok(Self { data, hash })
Decoded(v) == [state |-> "ok", value |-> v]

\* the Parser of the decode under way
Cursor == [buf |-> dbuf, pos |-> dpos]

\* a read failed: PrivKey::parse returns the error, which parse_buf hands on
\* and parse!(buf = .., PrivKey, "privkey") wraps
DecodeFails(r) ==
    /\ dres' = Failed(parse(r, "privkey").error)
    /\ dpos' = r.parser.pos
    /\ dpc' = "done"

\* the length prefix is read and checked
SizeRead(r) ==
    /\ IF r.ok
       THEN dlen' = r.value /\ dpos' = r.parser.pos /\ dpc' = "data" /\ dres' = dres
       ELSE DecodeFails(r) /\ dlen' = dlen
    /\ UNCHANGED <<dbuf, ddata>>
    /\ UNCHANGED passVars

ReadSize == dpc = "size" /\ SizeRead(PrivKey_size(Cursor))

\* the secret bytes are read
DataRead(r) ==
    /\ IF r.ok
       THEN ddata' = r.value /\ dpos' = r.parser.pos /\ dpc' = "hash" /\ dres' = dres
       ELSE DecodeFails(r) /\ ddata' = ddata
    /\ UNCHANGED <<dbuf, dlen>>
    /\ UNCHANGED passVars

ReadData == dpc = "data" /\ DataRead(PrivKey_data(Cursor, dlen))

\* what parse!(buf = .., PrivKey, "privkey") gives once PrivKey::parse has
\* returned privkey and left the Parser p: parse_buf checks that the buffer
\* is consumed, and the macro wraps the failure of that check
PrivKeyReturned(privkey, p) ==
    parse(Try(Parser_check_finished(p), LAMBDA f : Ok(privkey)), "privkey")

\* the hash is read and the PrivKey returned; the buffer must be at its end
HashRead(r) ==
    /\ IF r.ok
       THEN /\ dres' = LET whole == PrivKeyReturned([data |-> ddata, hash |-> r.value],
                                                     r.parser)
                        IN  IF whole.ok THEN Decoded(whole.value)
                            ELSE Failed(whole.error)
            /\ dpos' = r.parser.pos
            /\ dpc' = "done"
       ELSE DecodeFails(r)
    /\ UNCHANGED <<dbuf, dlen, ddata>>
    /\ UNCHANGED passVars

ReadHash == dpc = "hash" /\ HashRead(PrivKey_hash(Cursor))

NextPrivKey == ReadSize \/ ReadData \/ ReadHash

SpecPrivKey == InitPrivKey /\ [][NextPrivKey]_vars

(***************************************************************************)
(* Secret-key length validation (PrivKey::parse).                          *)
(***************************************************************************)
\* the length prefix of the buffer being decoded
Prefix == CompactSize_parse(Parser_new(dbuf))
ValidLength(length) == length \in {U64(214), U64(279)}
\* the bytes the buffer holds after its length prefix
AfterPrefix == Len(dbuf) - Prefix.parser.pos

\* a decode of a buffer whose declared length is neither 214 nor 279 ends, at
\* its first step, with InvalidLength and without a byte read past the prefix
RejectsLength ==
    dpc # "size" =>
        /\ dpc = "done"
        /\ dres = Failed(with_context(InvalidLength("privkey", <<214, 279>>, Prefix.value),
                                      "Parsing privkey"))
        /\ dpos = Prefix.parser.pos
        /\ ddata = << >>

\* a decode of a buffer whose declared length is 214 or 279 reads that many
\* bytes and then a 32-byte hash, and fails only where the buffer runs out
\* or, read from a standalone buffer, holds more than that
ReadsLength(length) ==
    /\ dpc \in {"data", "hash"} => dlen = Prefix.value
    /\ dpc = "hash" =>
          /\ ddata = SubSeq(dbuf, Prefix.parser.pos + 1, Prefix.parser.pos + length)
          /\ dpos = Prefix.parser.pos + length
    /\ dres.state = "ok" =>
          /\ dres.value.data
                = SubSeq(dbuf, Prefix.parser.pos + 1, Prefix.parser.pos + length)
          /\ dres.value.hash
                = SubSeq(dbuf, Prefix.parser.pos + length + 1,
                         Prefix.parser.pos + length + 32)
          /\ dpos = Prefix.parser.pos + length + 32
    /\ dres.state = "err" =>
          \/ /\ RootCause(dres.error).kind = "BufferUnderflow"
             /\ AfterPrefix < length + 32
          \/ /\ dres.error
                   = with_context(BufferNotConsumed(AfterPrefix - (length + 32)),
                                  "Parsing privkey")
             /\ AfterPrefix > length + 32
             /\ dpos = Prefix.parser.pos + length + 32
    /\ dpc = "done" /\ AfterPrefix = length + 32 => dres.state = "ok"

\* C10. PrivKey decoding fails with InvalidLength (kind privkey, expected 214
\* or 279, actual the decoded length) for every length prefix other than 214
\* and 279, before any byte of secret material is read and so even when the
\* buffer is shorter than the declared length; for 214 or 279 it reads exactly
\* that many bytes followed by a 32-byte hash.
C10_LengthValidation ==
    Prefix.ok =>
        IF ValidLength(Prefix.value)
        THEN ReadsLength(LittleEndian(Prefix.value))
        ELSE RejectsLength

\* a declared length of 100 in a buffer that holds nothing after the prefix
\* has been rejected with InvalidLength
C10_Witness ==
    /\ dbuf = <<100>>
    /\ dpc = "done"
    /\ dres = Failed(with_context(InvalidLength("privkey", <<214, 279>>, U64(100)),
                                  "Parsing privkey"))

(***************************************************************************)
(* The codec on its own: a CompactSize encoded and decoded again, a        *)
(* CompactSize decoded from given bytes, and Parser::next called on a      *)
(* buffer any number of times.                                             *)
(***************************************************************************)
\* how far around each width boundary the values tried lie
VarIntSlack == 2
\* the longest buffer a Parser is run on, and the most bytes asked of it at once
MaxBuf == 3
MaxRead == 4

\* u64 values at the low and the high end of each encoding width
VarIntValues ==
    { U64(n) : n \in 0..VarIntSlack }
    \cup { U64(n) : n \in (252 - VarIntSlack)..(253 + VarIntSlack) }
    \cup { U64(n) : n \in (65535 - VarIntSlack)..(65536 + VarIntSlack) }
    \cup { <<255 - k, 255, 255, 255, 0, 0, 0, 0>> : k \in 0..VarIntSlack }
    \cup { <<k, 0, 0, 0, 1, 0, 0, 0>> : k \in 0..VarIntSlack }
    \cup { <<255 - k, 255, 255, 255, 255, 255, 255, 255>> : k \in 0..VarIntSlack }

\* v needs no more than `width` bytes
FitsIn(v, width) == \A i \in (width + 1)..8 : v[i] = 0

\* every value tried behind every prefix wide enough for it, whole and cut
\* short by one byte, and the one-byte forms
WideEncodings(prefix) ==
    { <<prefix>> \o SubSeq(v, 1, CompactSizeWidth(prefix) - cut) :
        cut \in 0..1,
        v \in {w \in VarIntValues : FitsIn(w, CompactSizeWidth(prefix))} }

VarIntEncodings ==
    UNION { WideEncodings(prefix) : prefix \in 253..255 }
    \cup { <<v[1]>> : v \in {w \in VarIntValues : w[1] < 253} }
    \cup { << >> }

\* buffers a Parser is run on
RECURSIVE Buffers(_)
Buffers(n) ==
    IF n = 0 THEN { << >> }
    ELSE Buffers(n - 1) \cup { Append(b, n) : b \in Buffers(n - 1) }

InitCodec ==
    /\ \/ dpc = "encode" /\ dlen \in VarIntValues /\ dbuf = << >>
       \/ dpc = "decode" /\ dlen = U64(0) /\ dbuf \in VarIntEncodings
       \/ dpc = "cursor" /\ dlen = U64(0) /\ dbuf \in Buffers(MaxBuf)
    /\ dpos = 0
    /\ ddata = << >>
    /\ dres = Running
    /\ PassIdle

\* the value in dlen is encoded; ddata keeps the bytes the encoder gave
EncodeVarInt ==
    /\ dpc = "encode"
    /\ dbuf' = CompactSize_encode_u64(dlen)
    /\ ddata' = CompactSize_encode_u64(dlen)
    /\ dpc' = "decode"
    /\ UNCHANGED <<dpos, dlen, dres>>
    /\ UNCHANGED passVars

\* what a decode that gave r leaves
VarIntDecoded(r) ==
    /\ dres' = IF r.ok THEN Decoded(r.value) ELSE Failed(r.error)
    /\ dpos' = r.parser.pos
    /\ dpc' = "done"
    /\ UNCHANGED <<dbuf, dlen, ddata>>
    /\ UNCHANGED passVars

\* CompactSize::parse on a Parser over the buffer
DecodeVarInt == dpc = "decode" /\ VarIntDecoded(CompactSize_parse(Cursor))

\* what a call of next(n) that gave r leaves; ddata keeps the call
NextCalled(n, r) ==
    /\ dres' = IF r.ok THEN Decoded(r.value) ELSE Failed(r.error)
    /\ dpos' = r.parser.pos
    /\ ddata' = <<dpos, n>>
    /\ UNCHANGED <<dbuf, dlen, dpc>>
    /\ UNCHANGED passVars

\* Parser::next(n) on the Parser over the buffer, after any earlier calls
CursorNext == dpc = "cursor" /\ \E n \in 0..MaxRead : NextCalled(n, Parser_next(Cursor, n))

NextCodec == EncodeVarInt \/ DecodeVarInt \/ CursorNext

SpecCodec == InitCodec /\ [][NextCodec]_vars

\* a < b as unsigned 64-bit numbers
U64Less(a, b) == \E i \in 1..8 : a[i] < b[i] /\ \A j \in (i + 1)..8 : a[j] = b[j]

\* the least value each prefix may carry: 0xFD, 0x10000, 0x100000000
LeastFor(prefix) ==
    CASE prefix = 253 -> U64(253)
      [] prefix = 254 -> U64(65536)
      [] prefix = 255 -> <<0, 0, 0, 0, 1, 0, 0, 0>>

\* the minimal form of v: one byte below 0xFD, else the first prefix whose
\* successor's least value is above v, and the low bytes of v
MinimalForm(v) ==
    IF U64Less(v, LeastFor(253)) THEN <<v[1]>>
    ELSE IF U64Less(v, LeastFor(254)) THEN <<253>> \o SubSeq(v, 1, 2)
    ELSE IF U64Less(v, LeastFor(255)) THEN <<254>> \o SubSeq(v, 1, 4)
    ELSE <<255>> \o v

\* C11. A value encoded and decoded again is the value, the decode consumes
\* the whole encoding, and the encoding has the minimal width: 1 byte below
\* 0xFD, else 0xFD + 2, 0xFE + 4 or 0xFF + 8 little-endian bytes.
C11_VarIntRoundTrip ==
    ddata # << >> /\ dpc # "cursor" =>
        /\ dbuf = MinimalForm(dlen)
        /\ dpc = "done" => dres = Decoded(dlen) /\ dpos = Len(dbuf)

\* 0x100000000 was encoded as 0xFF and 8 bytes and decoded again
C11_Witness ==
    /\ dlen = <<0, 0, 0, 0, 1, 0, 0, 0>>
    /\ dbuf = <<255, 0, 0, 0, 0, 1, 0, 0, 0>>
    /\ dpc = "done"
    /\ dres = Decoded(dlen)

\* the value a whole wide encoding carries
Carried == ZeroExtend(SubSeq(dbuf, 2, Len(dbuf)))

\* the buffer is a prefix of 0xFD and above with all the bytes it calls for
WholeWide ==
    /\ dbuf # << >>
    /\ dbuf[1] >= 253
    /\ Len(dbuf) = 1 + CompactSizeWidth(dbuf[1])

\* C12. The decode of a 0xFD-, 0xFE- or 0xFF-prefixed value below the least
\* value of that prefix fails with InvalidCompactSize carrying the prefix and
\* the value; no decode returns a value from a form that is not its minimal one.
C12_RejectsNonCanonical ==
    dpc = "done" =>
        /\ WholeWide /\ U64Less(Carried, LeastFor(dbuf[1])) =>
              dres = Failed(InvalidCompactSize(dbuf[1], Carried))
        /\ dres.state = "ok" => SubSeq(dbuf, 1, dpos) = MinimalForm(dres.value)

\* 0xFD 0xFC 0x00 has been rejected
C12_Witness ==
    /\ dbuf = <<253, 252, 0>>
    /\ dpc = "done"
    /\ dres = Failed(InvalidCompactSize(253, U64(252)))

\* C13. next(n) at position p with m bytes remaining returns the bytes at
\* [p, p+n) and moves to p+n when n <= m, and fails with BufferUnderflow of
\* offset p, needed n, remaining m otherwise, without moving; the position
\* never exceeds the buffer length.
C13_CursorBounds ==
    dpc = "cursor" =>
        /\ dpos <= Len(dbuf)
        /\ ddata # << >> =>
              IF ddata[2] <= Len(dbuf) - ddata[1]
              THEN /\ dres = Decoded(SubSeq(dbuf, ddata[1] + 1, ddata[1] + ddata[2]))
                   /\ dpos = ddata[1] + ddata[2]
              ELSE /\ dres = Failed(BufferUnderflow(ddata[1], ddata[2],
                                                    Len(dbuf) - ddata[1]))
                   /\ dpos = ddata[1]

\* after a read of 2 bytes of a 3-byte buffer, a read of 2 more has failed
C13_Witness ==
    /\ dpc = "cursor"
    /\ dbuf = <<1, 2, 3>>
    /\ ddata = <<2, 2>>
    /\ dres = Failed(BufferUnderflow(2, 2, 1))
    /\ dpos = 2

(***************************************************************************)
(* parse! on its own: each form of the macro applied to a decode over a    *)
(* buffer, and the result handed out through the parse! of enclosing       *)
(* decoders.                                                               *)
(***************************************************************************)
\* how many enclosing decoders wrap a result again
MaxDepth == 2

\* descriptions given to parse!
Descriptions == {"string length", "name", "PrivKey size"}

\* the decoders parse! is applied to
TypeNames == {"CompactSize", "String", "Blob"}
TypeParse(type, p) ==
    CASE type = "CompactSize" -> CompactSize_parse(p)
      [] type = "String" -> String_parse(p)
      [] OTHER -> Blob_parse(p)
\* <Type as Parse>::parse_buf(buf, false)
TypeParseBuf(type, buf) ==
    CASE type = "CompactSize" -> parse_buf(CompactSize_parse, buf)
      [] type = "String" -> parse_buf(String_parse, buf)
      [] OTHER -> parse_buf(Blob_parse, buf)

\* buffers that hold a payload whole, cut short, or followed by more bytes
ParseBuffers ==
    Buffers(MaxBuf)
    \cup { Str(n, 9) : n \in 0..MaxBuf }
    \cup { Str(n, 9) \o t : n \in 0..MaxBuf, t \in Buffers(MaxBuf) }
    \cup { SubSeq(Str(n, 9), 1, n) : n \in 1..MaxBuf }
    \cup { <<253, 1, 0>>, <<253, 253, 0>>, <<254, 1>> }

\* a Result without the Parser a decoder hands back with it
Result(r) == IF r.ok THEN Ok(r.value) ELSE Err(r.error)

InitParse ==
    /\ dbuf \in ParseBuffers
    /\ dpos = 0
    /\ dpc = "parse"
    /\ dlen = U64(0)
    /\ ddata = << >>
    /\ dres = Running
    /\ PassIdle

\* parse! has been applied to a decode that gave inner and left the caller's
\* Parser at pos; ddata keeps the form, what the decode gave, and the
\* descriptions from the innermost outwards
Parsed(form, inner, pos, description) ==
    /\ dpc = "parse"
    /\ dres' = Result(parse(inner, description))
    /\ dpos' = pos
    /\ ddata' = [form |-> form, inner |-> Result(inner), descriptions |-> <<description>>]
    /\ dpc' = "parsed"
    /\ UNCHANGED <<dbuf, dlen>>
    /\ UNCHANGED passVars

\* parse! with a Parser: the decode advances the Parser it is given
ParsedWith(form, inner, description) ==
    Parsed(form, inner, inner.parser.pos, description)

\* parse!(parser, Type, context)
ParseParserForm ==
    \E type \in TypeNames, description \in Descriptions :
        ParsedWith("parser", TypeParse(type, Cursor), description)

\* parse!(parser, bytes = length, context) and parse!(parser, data = length, context)
ParseBytesForm ==
    \E length \in 0..MaxRead, description \in Descriptions :
        ParsedWith("bytes", Parser_next(Cursor, length), description)

\* parse!(buf = buf, Type, context): the Parser is parse_buf's own, and the
\* caller has none to be moved
ParseBufForm ==
    \E type \in TypeNames, description \in Descriptions :
        Parsed("buf", TypeParseBuf(type, dbuf), dpos, description)

\* the result leaves an enclosing decoder through that decoder's parse!
ParseEnclosing ==
    /\ dpc = "parsed"
    /\ Len(ddata.descriptions) <= MaxDepth
    /\ \E description \in Descriptions :
          /\ dres' = parse(dres, description)
          /\ ddata' = [ddata EXCEPT !.descriptions = Append(@, description)]
    /\ UNCHANGED <<dbuf, dpos, dpc, dlen>>
    /\ UNCHANGED passVars

NextParse == ParseParserForm \/ ParseBytesForm \/ ParseBufForm \/ ParseEnclosing

SpecParse == InitParse /\ [][NextParse]_vars

\* the error n wrappings below e
RECURSIVE SourceAt(_, _)
SourceAt(e, n) == IF n = 0 THEN e ELSE SourceAt(e.source, n - 1)

\* the kinds of the errors on the cause chain of e, outermost first
RECURSIVE CauseKinds(_)
CauseKinds(e) ==
    IF e.kind = "Context" THEN <<"Context">> \o CauseKinds(e.source) ELSE <<e.kind>>

\* C21. Every form of parse! hands a decoded value on unchanged; a failure
\* becomes a Context error whose message is "Parsing " followed by the
\* description and whose source is the error it was given, so that after any
\* number of wrappings the error of the decode is still on the cause chain,
\* with its innermost kind unchanged at the end of it.
C21_ContextWrapping ==
    dpc = "parsed" =>
        IF ddata.inner.ok
        THEN dres = Ok(ddata.inner.value)
        ELSE /\ ~dres.ok
             /\ \A i \in 1..Len(ddata.descriptions) :
                   LET e == SourceAt(dres.error, Len(ddata.descriptions) - i) IN
                   /\ e.kind = "Context"
                   /\ e.message = "Parsing " \o ddata.descriptions[i]
             /\ SourceAt(dres.error, Len(ddata.descriptions)) = ddata.inner.error
             /\ LET kinds == CauseKinds(dres.error) IN
                   kinds[Len(kinds)] = RootCause(ddata.inner.error).kind

\* a String cut short inside its bytes, decoded from a buffer and wrapped by
\* two enclosing decoders: the underflow is four causes down
C21_Witness ==
    /\ dpc = "parsed"
    /\ dbuf = <<2, 9>>
    /\ ddata.form = "buf"
    /\ Len(ddata.descriptions) = 3
    /\ ~dres.ok
    /\ CauseKinds(dres.error)
          = <<"Context", "Context", "Context", "Context", "BufferUnderflow">>
    /\ RootCause(dres.error) = BufferUnderflow(1, 2, 1)

(***************************************************************************)
(* Properties of one pass.                                                 *)
(***************************************************************************)
\* the order of the statements of parse()
PassOrder ==
    <<"bestblock", "defaultkey", "hdseed", "key", "minversion", "name",
      "orderposnext", "pool", "purpose", "sapzaddr", "sapzkey", "tx", "version",
      "witnesscachesize", "wkey", "zkey", "networkinfo",
      "orchard_note_commitment_tree", "unifiedaddrmeta", "unifiedaccount",
      "unifiedfvk", "mnemonicphrase", "mnemonichdchain", "recipientmapping",
      "bestblock_nomerkle", "wallet", "done">>
Position(step) == CHOOSE i \in 1..Len(PassOrder) : PassOrder[i] = step
\* the pass has completed the statement `step`
After(step) == Position(pc) > Position(step)

RecordsOf(d, keyname) == {r \in d : r.key.keyname = keyname}
Count(d, keyname) == Cardinality(RecordsOf(d, keyname))
Range(seq) == {seq[i] : i \in DOMAIN seq}

\* a tx record's value decodes as a transaction / its key as a transaction id
ValueDecodes(r) == parse_buf(Blob_parse, r.value).ok
TxidDecodes(r) == parse_buf(TxId_parse, r.key.data).ok
FailingTx(d) == {r \in RecordsOf(d, "tx") : ~ValueDecodes(r)}
\* the transaction map made of the tx records whose value decodes
DecodedTx(d) ==
    [t \in {r.key.data : r \in RecordsOf(d, "tx") \ FailingTx(d)} |->
        (CHOOSE r \in RecordsOf(d, "tx") : r.key.data = t).value]

\* C1. When at least one tx record's value fails to decode, a strict pass
\* never gets past the transactions and returns no wallet; a lenient pass does
\* not fail on such a value, and once past the transactions its map holds
\* exactly the tx records whose value decoded, keyed by txid, with every
\* failing record skipped and reported exactly once.
C1_TxPolicy ==
    /\ strict /\ FailingTx(dump) # {} => ~After("tx") /\ outcome.state # "ok"
    /\ ~strict /\ pc = "tx" /\ outcome.state = "err" =>
          \E r \in RecordsOf(dump, "tx") : ~TxidDecodes(r)
    /\ ~strict /\ After("tx") =>
          /\ wallet.transactions = DecodedTx(dump)
          /\ Range(diagnostics) = FailingTx(dump)
          /\ Len(diagnostics) = Cardinality(FailingTx(dump))
    /\ outcome.state = "ok" => outcome.wallet.transactions = wallet.transactions

\* a lenient pass over one well-formed and two malformed tx records returned
\* a wallet with the one transaction and reported the other two
C1_Witness ==
    /\ ~strict
    /\ outcome.state = "ok"
    /\ Count(dump, "tx") = 3
    /\ DOMAIN outcome.wallet.transactions = {Txid(1)}
    /\ Len(diagnostics) = 2

\* the error a pass stops with at the key step when the counts differ
CountFailure(keys, metas) ==
    IF keys = 0
    THEN with_context(Message("No records found for keyname: key"),
                      "Getting 'key' records")
    ELSE IF metas = 0
    THEN with_context(Message("No records found for keyname: keymeta"),
                      "Getting 'keymeta' records")
    ELSE Message("Mismatched key and keymeta records")

\* no key pair decoded, no key or keymeta record marked
KeysUntouched ==
    \A r \in RecordsOf(dump, "key") \cup RecordsOf(dump, "keymeta") :
        /\ r.key \in unparsed_keys
        /\ r.key \notin DOMAIN marks
        /\ r.key \notin decoded

\* C2 as stated: whenever the number of key records differs from the number
\* of keymeta records, the pass fails at the key step with the mismatched-
\* records failure, before a key pair is decoded or a record marked.
C2_AlwaysMismatch ==
    Count(dump, "key") # Count(dump, "keymeta") =>
        /\ ~After("key") /\ outcome.state # "ok"
        /\ pc = "key" => ~todo.active /\ KeysUntouched
        /\ pc = "key" /\ outcome.state = "err" =>
              outcome.error = Message("Mismatched key and keymeta records")

\* C2. Whenever the number of key records differs from the number of keymeta
\* records, the pass never gets past the key step: it fails there before a
\* key pair is decoded or a key or keymeta record marked, with the mismatched-
\* records failure when both categories have records and with the failed
\* lookup of the empty category otherwise.
C2_CountCheck ==
    Count(dump, "key") # Count(dump, "keymeta") =>
        /\ ~After("key") /\ outcome.state # "ok"
        /\ pc = "key" => ~todo.active /\ KeysUntouched
        /\ pc = "key" /\ outcome.state = "err" =>
              outcome.error = CountFailure(Count(dump, "key"), Count(dump, "keymeta"))

\* a pass over 3 key and 2 keymeta records has failed with the mismatch
C2_Witness ==
    /\ Count(dump, "key") = 3
    /\ Count(dump, "keymeta") = 2
    /\ outcome = Failed(Message("Mismatched key and keymeta records"))
    /\ KeysUntouched

\* C3. A pass succeeds only if, for each of key/keymeta, sapzkey/sapzkeymeta
\* and zkey/zkeymeta, the dump has as many primary as metadata records.
C3_PairCounts ==
    outcome.state = "ok" =>
        /\ Count(dump, "key") = Count(dump, "keymeta")
        /\ Count(dump, "sapzkey") = Count(dump, "sapzkeymeta")
        /\ Count(dump, "zkey") = Count(dump, "zkeymeta")

\* keynames whose every record a successful pass decodes
DecodedKeynames ==
    {"bestblock", "defaultkey", "key", "keymeta", "minversion", "name", "pool",
     "purpose", "sapzaddr", "sapzkey", "version", "witnesscachesize", "wkey", "zkey",
     "networkinfo", "orchard_note_commitment_tree", "unifiedaddrmeta",
     "mnemonicphrase", "mnemonichdchain", "recipientmapping", "orderposnext",
     "bestblock_nomerkle"}

\* the co-keyed metadata records of the Sapling and Sprout keys
CoKeyed(d, keyname, metaname) ==
    {m \in RecordsOf(d, metaname) : \E r \in RecordsOf(d, keyname) :
                                        r.key.data = m.key.data}

\* the records of d a successful pass has decoded
DecodedRecords(d) ==
    {r \in d : r.key.keyname \in DecodedKeynames}
    \cup (RecordsOf(d, "tx") \ FailingTx(d))
    \cup CoKeyed(d, "sapzkey", "sapzkeymeta") \cup CoKeyed(d, "zkey", "zkeymeta")
    \cup {r \in RecordsOf(d, "hdseed") : r.key.data = << >>}
    \cup {r \in RecordsOf(d, "unifiedaccount") \cup RecordsOf(d, "unifiedfvk") :
             has_keys_for_keyname(d, "unifiedaddrmeta")}

\* C5. After a successful pass no record of a recognized category that was
\* decoded (primary records, their co-keyed metadata records, scalar records,
\* map records, tx records) is in the returned unclaimed set.
C5_DecodedAreClaimed ==
    outcome.state = "ok" =>
        /\ decoded \cap outcome.unparsed = {}
        /\ {r.key : r \in DecodedRecords(dump)} \subseteq decoded

\* a pass over two key pairs returned with every record of the dump decoded
\* and none unclaimed
C5_Witness ==
    /\ outcome.state = "ok"
    /\ Count(dump, "key") = 2
    /\ Count(dump, "keymeta") = 2
    /\ decoded = {r.key : r \in dump}
    /\ outcome.unparsed = {}

\* C7. A pass that has stopped has returned a wallet with an unclaimed set,
\* or an error; it never stops in any other way.
C7_WalletOrError == outcome.state \in {"running", "ok", "err"}

\* the map a successful pass must have built from the records of a category
\* whose keys and values are decoded by KeyOf and ValueOf
MapOf(d, keyname, KeyOf(_), ValueOf(_)) ==
    [k \in {KeyOf(r.key.data).value : r \in RecordsOf(d, keyname)} |->
        ValueOf((CHOOSE r \in RecordsOf(d, keyname) : KeyOf(r.key.data).value = k).value).value]

AddressOf(data) == parse_buf(Address_parse, data)
StringOf(value) == parse_buf(String_parse, value)
BlobOf(bytes) == parse_buf(Blob_parse, bytes)

\* the pairs of records of a category whose keys decode to one address
SameAddress(d, keyname, KeyOf(_)) ==
    {pair \in RecordsOf(d, keyname) \X RecordsOf(d, keyname) :
        /\ pair[1] # pair[2]
        /\ KeyOf(pair[1].key.data).ok /\ KeyOf(pair[2].key.data).ok
        /\ KeyOf(pair[1].key.data).value = KeyOf(pair[2].key.data).value}

\* the pass stopped in the decoder of keyname on its duplicate check
DuplicateFailure(keyname) ==
    /\ pc = keyname /\ outcome.state = "err"
    /\ outcome.error.kind = "Message"
    /\ "subject" \in DOMAIN outcome.error

\* what holds of the decoder of an address-keyed category:
\*  - a dump with two records of the category that decode to one address gets
\*    no map and no wallet, and a pass that reaches them with every record of
\*    the category decoding stops on the duplicate check;
\*  - the store's raw keys are distinct and a key is decoded whole and in
\*    canonical form, so no dump holds such a pair, also when one key is
\*    another's address followed by a byte or under a wider length prefix,
\*    and no pass stops on the duplicate check;
\*  - a record of the category whose key or value does not decode stops the
\*    pass before the decoder returns;
\*  - the map the decoder returns has one entry per record, under the record's
\*    decoded key and with its decoded value.
AddressKeyed(keyname, field, KeyOf(_), ValueOf(_), message) ==
    /\ SameAddress(dump, keyname, KeyOf) # {} =>
          /\ ~After(keyname)
          /\ outcome.state # "ok"
          /\ pc = keyname /\ outcome.state = "err"
                /\ (\A r \in RecordsOf(dump, keyname) :
                       KeyOf(r.key.data).ok /\ ValueOf(r.value).ok) =>
                \E pair \in SameAddress(dump, keyname, KeyOf) :
                    outcome.error = Bail(message, KeyOf(pair[1].key.data).value)
    /\ SameAddress(dump, keyname, KeyOf) = {}
    /\ ~DuplicateFailure(keyname)
    /\ (\E r \in RecordsOf(dump, keyname) :
           ~KeyOf(r.key.data).ok \/ ~ValueOf(r.value).ok) =>
          ~After(keyname) /\ outcome.state # "ok"
    /\ After(keyname) =>
          /\ wallet[field] = MapOf(dump, keyname, KeyOf, ValueOf)
          /\ Cardinality(DOMAIN wallet[field]) = Count(dump, keyname)

C14_ClaimedContributed ==
    outcome.state = "ok" =>
        /\ {r.key : r \in dump} \ outcome.unparsed \subseteq decoded
        /\ \A i \in 1..Len(diagnostics) : diagnostics[i].key \in outcome.unparsed

\* C15. Every step of a pass leaves each record identity of the dump marked
\* at most once, never adds to the pending set, and leaves the pending set
\* within the dump's record identities.
C15_ClaimedOnce ==
    [][/\ \A k \in DOMAIN marks' : k \in {r.key : r \in dump} => marks'[k] <= 1
       /\ unparsed_keys' \subseteq unparsed_keys
       /\ unparsed_keys' \subseteq {r.key : r \in dump}]_vars

\* a pass over two key and two keymeta records has returned a wallet, marked
\* each of its records once and left nothing pending
C15_Witness ==
    /\ outcome.state = "ok"
    /\ Count(dump, "key") = 2
    /\ \A r \in dump : r.key \in DOMAIN marks /\ marks[r.key] = 1
    /\ unparsed_keys = {}

\* the decoded key of a unifiedaccount record
AccountOf(data) == parse_buf(UnifiedAccountMetadata_parse, data)
U32Of(value) == parse_buf(u32_parse, value)

\* every record of the three unified-account categories decodes
UnifiedDecodes(d) ==
    /\ \A r \in RecordsOf(d, "unifiedaddrmeta") :
          BlobOf(r.key.data).ok /\ U32Of(r.value) = Ok(U32(0))
    /\ \A r \in RecordsOf(d, "unifiedaccount") :
          AccountOf(r.key.data).ok /\ U32Of(r.value) = Ok(U32(0))
    /\ \A r \in RecordsOf(d, "unifiedfvk") :
          BlobOf(r.key.data).ok /\ BlobOf(r.value).ok

\* C16. Whichever of unifiedaddrmeta, unifiedaccount and unifiedfvk the dump
\* lacks, a pass whose unified-account records all decode does not fail in
\* parse_unified_accounts, and a wallet it returns has each sub-map built from
\* exactly the records of its category, all of them claimed.
C16_UnifiedOptional ==
    UnifiedDecodes(dump) =>
        /\ pc \in {"unifiedaddrmeta", "unifiedaccount", "unifiedfvk"} =>
              outcome.state # "err"
        /\ outcome.state = "ok" =>
              /\ Range(outcome.wallet.unified_accounts.address_metadata)
                    = {BlobOf(r.key.data).value : r \in RecordsOf(dump, "unifiedaddrmeta")}
              /\ Len(outcome.wallet.unified_accounts.address_metadata)
                    = Count(dump, "unifiedaddrmeta")
              /\ DOMAIN outcome.wallet.unified_accounts.account_metadata
                    = {AccountOf(r.key.data).value.ufvk_fingerprint :
                          r \in RecordsOf(dump, "unifiedaccount")}
              /\ outcome.wallet.unified_accounts.full_viewing_keys
                    = MapOf(dump, "unifiedfvk", BlobOf, BlobOf)
              /\ \A r \in RecordsOf(dump, "unifiedaddrmeta")
                         \cup RecordsOf(dump, "unifiedaccount")
                         \cup RecordsOf(dump, "unifiedfvk") :
                    r.key \notin outcome.unparsed

\* what a recipientmapping record decodes to on its own: a map from its
\* transaction id to the list of its one mapping
MappingOf(r) == parse_send_recipients_record(dump, EmptyMap, r)
TxidOf(r) == CHOOSE t \in DOMAIN MappingOf(r).value : TRUE
\* the recipientmapping records of transaction t
MappingsOf(t) ==
    {r \in RecordsOf(dump, "recipientmapping") : MappingOf(r).ok /\ TxidOf(r) = t}

\* C17 as stated: two recipientmapping records that decode to the same
\* transaction id make the pass fail.
C17_DuplicateTxidFails ==
    (\E r, q \in RecordsOf(dump, "recipientmapping") :
        r # q /\ MappingOf(r).ok /\ MappingOf(q).ok /\ TxidOf(r) = TxidOf(q))
    => outcome.state # "ok"

\* C17. recipientmapping records whose keys and values decode never make the
\* pass fail, also when several of them have the same transaction id: the
\* returned map has an entry for exactly the transaction ids of the records,
\* and the list of each holds one mapping per record of that transaction,
\* none dropped and none overwritten.
C17_RecipientLists ==
    (\A r \in RecordsOf(dump, "recipientmapping") : MappingOf(r).ok) =>
        /\ pc = "recipientmapping" => outcome.state # "err"
        /\ outcome.state = "ok" =>
              /\ DOMAIN outcome.wallet.send_recipients
                    = {TxidOf(r) : r \in RecordsOf(dump, "recipientmapping")}
              /\ \A t \in DOMAIN outcome.wallet.send_recipients :
                    /\ Range(outcome.wallet.send_recipients[t])
                          = {MappingOf(r).value[t][1] : r \in MappingsOf(t)}
                    /\ Len(outcome.wallet.send_recipients[t])
                          = Cardinality(MappingsOf(t))

\* a pass over two recipientmapping records of one transaction returned a
\* wallet with both mappings in that transaction's list
C17_Witness ==
    /\ outcome.state = "ok"
    /\ Cardinality(MappingsOf(Txid(1))) = 2
    /\ Len(outcome.wallet.send_recipients[Txid(1)]) = 2

\* a sorts before b in lexicographic order of bytes
LexLess(a, b) ==
    \/ Len(a) < Len(b) /\ SubSeq(b, 1, Len(a)) = a
    \/ \E i \in 1..Len(a) :
          /\ i <= Len(b)
          /\ a[i] < b[i]
          /\ SubSeq(a, 1, i - 1) = SubSeq(b, 1, i - 1)

\* the tx records on which an iteration of this pass returns an error
AbortingTx ==
    {r \in RecordsOf(dump, "tx") : ~TxidDecodes(r) \/ (strict /\ ~ValueDecodes(r))}
\* the one of them with the smallest key
FirstAbortingTx ==
    CHOOSE r \in AbortingTx :
        \A q \in AbortingTx \ {r} : LexLess(r.key.data, q.key.data)

\* C18. The tx records are taken in ascending lexicographic order of their
\* key bytes: the records already taken sort before those still to come, the
\* diagnostics are in ascending key order, and a pass that stops at the
\* transactions stops with the error of the failing record with the smallest
\* key, after marking exactly the tx records that sort before it. All of these
\* are fixed by the set of records, whatever order they are enumerated in.
C18_TxOrder ==
    /\ pc = "tx" /\ todo.active =>
          \A r \in RecordsOf(dump, "tx") \ todo.records, q \in todo.records :
              LexLess(r.key.data, q.key.data)
    /\ \A i, j \in 1..Len(diagnostics) :
          i < j => LexLess(diagnostics[i].key.data, diagnostics[j].key.data)
    /\ pc = "tx" /\ outcome.state = "err" =>
          /\ AbortingTx # {}
          /\ outcome.error
                = parse_transactions_record(strict, EmptyMap, FirstAbortingTx).error
          /\ {r \in RecordsOf(dump, "tx") : r.key \in DOMAIN marks}
                = {r \in RecordsOf(dump, "tx") :
                      LexLess(r.key.data, FirstAbortingTx.key.data)}

\* a lenient pass over a tx record that decodes between two that do not has
\* reported the one with the smaller key first
C18_Witness ==
    /\ outcome.state = "ok"
    /\ Len(diagnostics) = 2
    /\ diagnostics[1].key.data = Txid(0)
    /\ diagnostics[2].key.data = Txid(2)
    /\ Txid(1) \in DOMAIN outcome.wallet.transactions

\* what the decoder of each required scalar makes of dump d
RequiredScalar(d) ==
    [bestblock |-> parse_block_locator(d, "bestblock"),
     defaultkey |-> parse_default_key(d),
     minversion |-> parse_client_version(d, "minversion"),
     version |-> parse_client_version(d, "version"),
     witnesscachesize |-> parse_i64(d, "witnesscachesize"),
     networkinfo |-> parse_network_info(d),
     orchard_note_commitment_tree |->
         Try(orchard_value(d), LAMBDA v :
             IF Len(v.value) < 4 THEN Err("short")
             ELSE parse_orchard_note_commitment_tree(v.value)),
     mnemonichdchain |-> parse_mnemonic_hd_chain(d),
     mnemonicphrase |-> parse_mnemonic_phrase(d)]

\* the required scalars that are absent from the dump or do not decode
BadScalars(d) == {k \in DOMAIN RequiredScalar(d) : ~RequiredScalar(d)[k].ok}

\* C19. A pass over a dump in which a required scalar is absent or malformed
\* returns an error value: it never returns a wallet and never crashes, an
\* orchard note commitment tree value of fewer than 4 bytes included.
C19_RequiredScalars ==
    BadScalars(dump) # {} => outcome.state \in {"running", "err"}

\* the legacy seed an hdseed record stands for
LegacySeedOf(r) ==
    Some([seed_data |-> parse_buf(String_parse, r.value).value,
          fingerprint |-> Some(parse_buf(Blob_parse, r.key.data).value)])

\* wallet w holds under field what the records of keyname in d stand for, each
\* given by ValueOf, and nothing when d has no such record; held is the
\* unclaimed set returned with w
OptionalHeld(d, w, held, keyname, field, ValueOf(_)) ==
    /\ \A r \in RecordsOf(d, keyname) :
          w[field] = ValueOf(r) /\ r.key \notin held
    /\ RecordsOf(d, keyname) = {} => w[field] = None

OrderPosNextOf(r) == Some(parse_buf(i64_parse, r.value).value)
BlockLocatorOf(r) == Some(parse_buf(Blob_parse, r.value).value)

\* C20. A successful pass over a dump with an hdseed record (its key data the
\* seed fingerprint, its value the seed data) returns a wallet whose legacy
\* seed is present with that fingerprint and seed data, and the record is not
\* in the unclaimed set; over a dump without one the legacy seed is absent,
\* and the pass does not fail at that step. The same holds of orderposnext
\* and bestblock_nomerkle.
C20_OptionalScalars ==
    /\ outcome.state = "ok" =>
          /\ OptionalHeld(dump, outcome.wallet, outcome.unparsed, "hdseed",
                          "legacy_hd_seed", LegacySeedOf)
          /\ OptionalHeld(dump, outcome.wallet, outcome.unparsed, "orderposnext",
                          "orderposnext", OrderPosNextOf)
          /\ OptionalHeld(dump, outcome.wallet, outcome.unparsed,
                          "bestblock_nomerkle", "bestblock_nomerkle", BlockLocatorOf)
    /\ \A k \in {"hdseed", "orderposnext", "bestblock_nomerkle"} :
          pc = k /\ RecordsOf(dump, k) = {} => outcome.state # "err"

\* the bytes a decode of type from the start of buf leaves unread
LeftOver(type, buf) == Len(buf) - TypeParse(type, Parser_new(buf)).parser.pos

\* parse!(buf = buf, type, "payload") succeeds exactly when the decode does
\* and ends at the end of buf, with the decoded value; a decode that leaves
\* bytes fails with BufferNotConsumed of their number
WholeBuffer(type, buf) ==
    LET inner == TypeParse(type, Parser_new(buf))
        whole == parse(TypeParseBuf(type, buf), "payload")
    IN  /\ whole.ok <=> inner.ok /\ LeftOver(type, buf) = 0
        /\ whole.ok => whole.value = inner.value
        /\ inner.ok /\ LeftOver(type, buf) > 0 =>
              whole.error
                = with_context(BufferNotConsumed(LeftOver(type, buf)), "Parsing payload")
        /\ ~inner.ok => RootCause(whole.error) = RootCause(inner.error)

\* the name records whose key holds more bytes than its address
TrailingNames(d) ==
    {r \in RecordsOf(d, "name") :
        /\ Address_parse(Parser_new(r.key.data)).ok
        /\ Len(r.key.data) > Address_parse(Parser_new(r.key.data)).parser.pos}

\* C22. A decode from a standalone buffer succeeds only if the decode succeeds
\* with the cursor at the end of the buffer; with k > 0 bytes left it fails
\* with BufferNotConsumed carrying remaining = k. This holds of the key data
\* and the value of every name record of the dump, and a pass over a dump with a
\* name record whose key has bytes after the address does not return a
\* wallet: it stops at the names on that record, with that failure as the
\* innermost cause.
C22_WholeBuffer ==
    /\ \A r \in RecordsOf(dump, "name"), type \in TypeNames :
          WholeBuffer(type, r.key.data) /\ WholeBuffer(type, r.value)
    /\ TrailingNames(dump) # {} =>
          /\ outcome.state # "ok"
          /\ pc = "name" /\ outcome.state = "err"
                /\ RootCause(outcome.error).kind = "BufferNotConsumed" =>
                \E r \in TrailingNames(dump) :
                    /\ order[Len(order)] = r.key
                    /\ r.key \notin DOMAIN marks
                    /\ outcome.error
                          = with_context(
                                BufferNotConsumed(
                                    Len(r.key.data)
                                    - Address_parse(Parser_new(r.key.data)).parser.pos),
                                "Parsing address")

\* a pass stopped at a name record whose key is an address and one more byte
C22_Witness ==
    /\ pc = "name"
    /\ Record("name", Str(2, 23) \o <<0>>, Str(1, 5)) \in dump
    /\ outcome = Failed(with_context(BufferNotConsumed(1), "Parsing address"))

(***************************************************************************)
(* Properties of two passes.                                               *)
(***************************************************************************)
\* the second pass has ended, and ran on a store rebuilt from the first one's
\* records, with the first one's policy
SameInput == run = 2 /\ Terminated /\ dump = first.dump /\ strict = first.strict
\* ... on the first one's store with the other policy
OtherPolicy == run = 2 /\ Terminated /\ dump = first.dump /\ strict # first.strict
\* ... without the first one's unrecognized records, with the first one's policy
WithoutUnrecognized ==
    /\ run = 2 /\ Terminated /\ strict = first.strict
    /\ dump = Recognized(first.dump) /\ dump # first.dump

\* C4. Records whose keyname no category decoder handles cause no error: the
\* pass ends as it does without them (a wallet or a failure), and when it
\* returns a wallet its unclaimed set is the one returned without them plus
\* the identities of those records, so exactly those identities when every
\* other record is claimed.
C4_UnrecognizedUnclaimed ==
    /\ outcome.state = "ok" =>
          {r.key : r \in dump \ Recognized(dump)} \subseteq outcome.unparsed
    /\ WithoutUnrecognized =>
          /\ first.outcome.state = outcome.state
          /\ outcome.state = "ok" =>
                first.outcome.unparsed
                    = outcome.unparsed \cup {r.key : r \in first.dump \ dump}

\* the base dump with one cscript record gave a wallet and that record's
\* identity as the whole unclaimed set; without it, a wallet and nothing unclaimed
C4_Witness ==
    /\ WithoutUnrecognized
    /\ first.dump = BaseDump \cup {Record("cscript", Blob(96), Blob(97))}
    /\ first.outcome.state = "ok"
    /\ first.outcome.unparsed = {DBKey("cscript", Blob(96))}
    /\ outcome.state = "ok"
    /\ outcome.unparsed = {}

\* C6. Two passes over the same records, put into the store in any two
\* orders, with the same policy end alike:
\* both fail, or both return the same wallet, list orders included, and the
\* same unclaimed set.
C6_Determinism ==
    SameInput =>
        /\ outcome.state = first.outcome.state
        /\ outcome.state = "ok" => outcome = first.outcome

\* C8. On a dump whose tx values all decode, a strict and a lenient pass end
\* alike: both return the same wallet and unclaimed set, or both fail in the
\* same category with the same error; and a tx key that is no transaction id
\* stops a lenient pass too.
C8_LenientOnlyTxValues ==
    /\ OtherPolicy /\ FailingTx(dump) = {} =>
          /\ outcome = first.outcome
          /\ pc = first.pc
    /\ (\E r \in RecordsOf(dump, "tx") : ~TxidDecodes(r)) =>
          ~After("tx") /\ outcome.state # "ok"

\* a lenient pass after a strict one over a tx record with a 31-byte key and
\* a well-formed value: both failed at the transactions, on the key
C8_Witness ==
    /\ OtherPolicy
    /\ ~strict
    /\ FailingTx(dump) = {}
    /\ pc = "tx"
    /\ outcome.state = "err"
    /\ outcome.error.message = "Parsing transaction ID"
    /\ first.outcome = outcome
====
